---- MODULE Spec2Model ----
(***************************************************************************)
(* A model of the TRegex connective stage of Causeway                      *)
(* (src/src/causeway/tregex_based/tregex_stage.py): pattern generation and *)
(* _extract_patterns, the query scheduler TRegexConnectiveModel.test with  *)
(* its TregexProcessorThread workers, on-disk result cache and progress    *)
(* reporter, the sentence filter, the parsing of the matcher's output, and *)
(* TRegexConnectiveStage._test_documents with its cross-match              *)
(* deduplication; and of PatternBasedFilterDecoder.decode                  *)
(* (src/src/causality_pipelines/candidate_filter_single_forest.py).        *)
(*                                                                         *)
(* Conventions.  Python lists are sequences, so sentence indices run from  *)
(* 1 here and from 0 in the source.  Token indices keep the source's       *)
(* numbering: token index t of a sentence is element t+1 of its lemma      *)
(* sequence (token 0 is ROOT).  A pattern is identified by its text, a     *)
(* sequence of pieces.  A file of the matcher's output is a sequence of   *)
(* blocks, one per input tree; a block is the sequence of its match        *)
(* lines, and a line is the record of its word, its trailing suffix and    *)
(* whether that suffix is a number.                                        *)
(***************************************************************************)
EXTENDS Naturals, Integers, Sequences, FiniteSets, TLC

\* ---------------------------------------------------------------- bounds
\* Worker threads started by test() (FLAGS.tregex_max_threads, scaled down).
NumWorkers == 2
\* Sentences handed to test().
NumSentences == 2
\* Entries of tregex_patterns.
MaxPatterns == 2
\* Raw candidates handed to __deduplicate.
MaxRaw == 3

VARIABLES
    \* inputs of test(): the sentences, the stored patterns, the matcher's fault
    sentences, tregex_patterns, badPattern, badKind,
    \* TRegexConnectiveModel.test: its position, the number of calls begun
    mainpc, calls,
    \* locals of test() shared with the threads
    ptb_strings, queue, unfinished, predicted_outputs,
    \* one TregexProcessorThread each: position in run(), the unit taken,
    \* the index into possible_sentences, the open output file (its cache
    \* key) and the position in it
    wpc, wunit, widx, wfile, wpos,
    \* ~/tregex_cache: cache key -> file content
    cache,
    \* history: how often each unit was taken, task_done calls per unit, what each unit
    \* parsed per sentence, tool processes spawned per unit in this call,
    \* whether the unit's cache file existed when the worker looked, and
    \* the result of the previous call of test()
    taken, doneCount, parsedLog, spawned, foundInCache, prev_outputs,
    \* the interpreter lock seen from list.extend: the thread inside the
    \* call (0: none), and the candidates each thread is about to append
    extending, wpossible,
    \* TRegexConnectiveStage.__deduplicate: its argument (a list of
    \* candidate objects, which it may change), its result, the argument as
    \* it was when the call began, and whether the call has been made;
    \* the result of a second call on the first call's result
    sentence_pcs, deduplicated, raw_pcs, dedupDone, rededuplicated, rededupDone,
    \* TRegexConnectiveStage._test_documents: sentence.possible_causations
    \* of the sentences handled so far
    possible_causations,
    \* _extract_patterns: the causation instances of the training sentences,
    \* the next one to handle, the set patterns_seen, and (history) what
    \* _get_pattern returned for each instance handled; _ptb_strings, the
    \* tree strings _train_model leaves for test()
    train_instances, xpos, patterns_seen, generated, self_ptb_strings,
    \* progress reporting: each thread's file_lock (its holder) and
    \* total_bytes_output; the reporter's position, the thread it is
    \* asking, its sum bytes_output and the fraction it computed last, and
    \* (history) what get_progress returned last for each thread
    file_lock, total_bytes_output, rpc, rthread, bytes_output, progress,
    last_progress,
    \* PatternBasedFilterDecoder.decode: its arguments, its result and
    \* whether the call has been made
    classifier_parts, labels, causation_instances, decoded,
    \* _create_output_file_if_not_exists, lines 619-627: the pattern text
    \* (character by character), its hash and the directory name made
    dir_pattern, pattern_hash, pattern_dir_name,
    \* extract_tense: the class attributes __cached_tenses and
    \* __cached_tenses_sentence of each of the two classes that define it,
    \* and (history) the calls made so far with what they returned
    cached_tenses, cached_tenses_sentence, tense_calls

schedVars == <<sentences, tregex_patterns, badPattern, badKind, mainpc, calls,
               ptb_strings, queue, unfinished, predicted_outputs,
               wpc, wunit, widx, wfile, wpos, cache,
               taken, doneCount, parsedLog, spawned, foundInCache,
               prev_outputs, extending, wpossible>>
lockVars == <<extending, wpossible>>
dedupVars == <<sentence_pcs, deduplicated, raw_pcs, dedupDone,
               rededuplicated, rededupDone, possible_causations>>
trainVars == <<train_instances, xpos, patterns_seen, generated, self_ptb_strings>>
reportVars == <<file_lock, total_bytes_output, rpc, rthread, bytes_output, progress,
                last_progress>>
decodeVars == <<classifier_parts, labels, causation_instances, decoded>>
dirVars == <<dir_pattern, pattern_hash, pattern_dir_name>>
tenseVars == <<cached_tenses, cached_tenses_sentence, tense_calls>>
sideVars == <<trainVars, reportVars, decodeVars, dirVars, tenseVars>>
vars == <<schedVars,
                   lockVars, dedupVars, sideVars>>

\* ------------------------------------------------------------- utilities
Range(s) == {s[i] : i \in DOMAIN s}

Count(s, x) == Cardinality({i \in DOMAIN s : s[i] = x})

\* Two lists hold the same elements the same number of times.
SameBag(a, b) ==
    /\ Len(a) = Len(b)
    /\ \A x \in Range(a) \cup Range(b) : Count(a, x) = Count(b, x)

RECURSIVE Flatten(_)
Flatten(ss) == IF ss = <<>> THEN <<>> ELSE Head(ss) \o Flatten(Tail(ss))

Workers == 1..NumWorkers

\* The classes that define extract_tense, each with its own cache.
TenseClasses == {"CausalClassifierModel", "PhrasePairModel"}

NoUnit == [pattern |-> <<>>, connective_labels |-> <<>>,
           possible_sentence_indices |-> <<>>, connective_lemmas |-> <<>>]
NoFile == <<>>

\* ------------------------------------------------------- the input space
\* Sentences as their token lemmas (token 0 is ROOT).
SentenceA == <<"ROOT", "smoking", "cause", "cancer">>
SentenceB == <<"ROOT", "flood", "because", "rain">>

\* The sentence lists handed to test(): two alike at the front, or
\* alternating.
SentenceLists ==
    { [i \in 1..NumSentences |-> IF i <= 2 THEN SentenceA ELSE SentenceB],
      [i \in 1..NumSentences |-> IF i % 2 = 1 THEN SentenceA ELSE SentenceB] }

\* A pattern that lets cause and effect be the same node.
NoExclusionConstraint == <<>>

\* _generate_pattern_from_steiners, line 429: the end of every generated
\* pattern text.
ExclusionConstraint == <<" : (=effect !== =cause)">>

\* Stored patterns (pattern, connective_labels, connective_lemmas); the
\* texts are cut down to a few pieces and the end every generated pattern
\* has.  The first two texts differ only in '/' against '\'; the last one
\* matches no sentence of a list without SentenceB.
PatternPool == <<
    [text |-> <<"/", "c">> \o ExclusionConstraint,
     labels |-> <<"connective_0">>, lemmas |-> <<"cause">>],
    [text |-> <<"\\", "c">> \o ExclusionConstraint,
     labels |-> <<"connective_0">>, lemmas |-> <<"cause">>],
    [text |-> <<"k">> \o ExclusionConstraint,
     labels |-> <<"connective_0">>, lemmas |-> <<"cause">>],
    [text |-> <<"b">> \o ExclusionConstraint,
     labels |-> <<"connective_0">>, lemmas |-> <<"because">>] >>

\* tregex_patterns holds no pattern text twice (_extract_patterns, 530-540).
PatternLists ==
    { [i \in 1..Len(ix) |-> PatternPool[ix[i]]] :
        ix \in { s \in UNION { [1..n -> DOMAIN PatternPool] : n \in 1..MaxPatterns } :
                   \A i \in 1..(Len(s) - 1) : s[i] < s[i + 1] } }

PatternTexts == { PatternPool[i].text : i \in DOMAIN PatternPool }
NoPattern == <<>>

\* -------------------------------------------------- sentence preprocessing
\* Sentence.dep_to_ptb_tree_string: the tree string names every token, so
\* it is modelled by the token sequence.
DepToPtbTreeString(sentence) == sentence

\* _preprocess_sentences: one tree string per sentence, in order.
PreprocessSentences(sents) ==
    [i \in 1..Len(sents) |-> DepToPtbTreeString(sents[i])]

\* Every sentence that holds one of the connective lemmas.
FilterSentencesAnyLemma(sents, connective_lemmas) ==
    SelectSeq([i \in 1..Len(sents) |-> i],
              LAMBDA i : \E l \in Range(connective_lemmas) : l \in Range(sents[i]))

\* _filter_sentences_for_pattern: the ascending indices of the sentences
\* that hold every connective lemma.
FilterSentencesForPattern(sents, connective_lemmas) ==
    SelectSeq([i \in 1..Len(sents) |-> i],
              LAMBDA i : \A l \in Range(connective_lemmas) : l \in Range(sents[i]))

\* test(), lines 75-80: the tuple queued for one stored pattern.
WorkUnit(sents, p) ==
    [pattern |-> p.text, connective_labels |-> p.labels,
     possible_sentence_indices |-> FilterSentencesForPattern(sents, p.lemmas),
     connective_lemmas |-> p.lemmas]

\* Only the patterns that some sentence can match are queued.
QueuedUnitsNonEmptyOnly(sents, patterns) ==
    SelectSeq([i \in DOMAIN patterns |-> WorkUnit(sents, patterns[i])],
              LAMBDA u : u.possible_sentence_indices # <<>>)

\* test(), lines 74-80: the loop over tregex_patterns puts one tuple per
\* stored pattern, in order, whatever its sentence subset.
QueuedUnits(sents, patterns) ==
    [i \in DOMAIN patterns |-> WorkUnit(sents, patterns[i])]

\* One output list too few.
NewOutputListsShort(sents) == [i \in 1..(Len(sents) - 1) |-> <<>>]

\* test(), line 89: [[] for _ in range(len(sentences))].
NewOutputLists(sents) == [i \in 1..Len(sents) |-> <<>>]

\* ------------------------------------------------------- the result cache
\* _create_output_file_if_not_exists, line 619: '/' becomes '\'.  The
\* pattern texts of this model are far shorter than 255 characters, so the
\* truncation of lines 620-627 does not apply to them.
PatternDirName(pattern) ==
    [i \in DOMAIN pattern |-> IF pattern[i] = "/" THEN "\\" ELSE pattern[i]]

\* nlpypline.util.hash_file: a digest of the tree file's content, taken
\* to be free of collisions.
HashFile(trees) == trees

\* cache_file_name, lines 629-631.
CacheFileName(pattern, trees) == <<PatternDirName(pattern), HashFile(trees)>>

\* A lookup that never finds the file.
OpenForReadNeverSucceeds(c, name) == FALSE

\* open(cache_file_name, 'rb') succeeds exactly when the file exists.
OpenForReadSucceeds(c, name) == name \in DOMAIN c

\* open(cache_file_name, 'w+b'): the file is created, or truncated to
\* nothing when it exists.
OpenForWrite(c, name) ==
    [k \in DOMAIN c \cup {name} |-> IF k = name THEN <<>> ELSE c[k]]

Block(lines) == [hole |-> FALSE, lines |-> lines]
\* Bytes never written, below a later write of a file that was truncated.
Hole == [hole |-> TRUE, lines |-> <<>>]

\* The matcher writes its n-th block at its own offset.
WriteBlock(file, n, block) ==
    IF n <= Len(file) THEN [file EXCEPT ![n] = block]
    ELSE file \o [i \in 1..(n - Len(file) - 1) |-> Hole] \o <<block>>

\* readline() at the end of the file returns '': a tree with no lines.
ReadBlock(file, n) == IF n <= Len(file) THEN file[n] ELSE Block(<<>>)

\* ------------------------------------------------------------ the matcher
Line(word, suffix) == [word |-> word, suffix |-> suffix, numeric |-> TRUE]
\* A node label whose part after the last '_' is no number.
BadLine(word) == [word |-> word, suffix |-> 0, numeric |-> FALSE]
\* igroup's fill value.
NoneLine == [word |-> "None", suffix |-> 0, numeric |-> FALSE, none |-> TRUE]

\* TRegex keeps two named nodes apart only where the pattern says so.
ExcludesSameNode(pattern) ==
    \E i \in DOMAIN pattern : pattern[i] = " : (=effect !== =cause)"

\* The matches of a one-connective pattern in one tree, as the lines
\* tregex.sh prints for -h cause -h effect -h connective_0: every token
\* with the connective's lemma that has a token on either side, with these
\* as cause and effect; a pattern without the exclusion also matches with
\* the token before the connective as both.
RECURSIVE MatchLinesFrom(_, _, _, _)
MatchLinesFrom(pattern, lemma, tree, pos) ==
    IF pos + 1 > Len(tree) THEN <<>>
    ELSE (IF tree[pos] = lemma /\ pos >= 3
          THEN << Line(tree[pos - 1], pos - 2), Line(tree[pos + 1], pos),
                  Line(tree[pos], pos - 1) >>
               \o (IF ExcludesSameNode(pattern) THEN <<>>
                   ELSE << Line(tree[pos - 1], pos - 2), Line(tree[pos - 1], pos - 2),
                           Line(tree[pos], pos - 1) >>)
          ELSE <<>>) \o MatchLinesFrom(pattern, lemma, tree, pos + 1)

\* What one run of tregex.sh writes for a pattern and a tree file: one
\* block per tree.  The run of the pattern badPattern goes wrong: it fails
\* and writes nothing, or prints node labels without a numeric suffix.
TregexOutput(unit, trees, bad, kind) ==
    IF unit.pattern = bad /\ kind = "fail" THEN <<>>
    ELSE [n \in 1..Len(trees) |->
            IF unit.pattern = bad /\ kind = "malformed"
            THEN Block(<<BadLine("x"), BadLine("x"), BadLine("x")>>)
            ELSE Block(MatchLinesFrom(unit.pattern, unit.connective_lemmas[1],
                                      trees[n], 1))]

\* ------------------------------------------------------- result parsing
\* Groups of n, the last one filled up with its own last line.
IGroupRepeatLast(lines, n) ==
    [g \in 1..((Len(lines) + n - 1) \div n) |->
        [j \in 1..n |-> IF (g - 1) * n + j <= Len(lines)
                        THEN lines[(g - 1) * n + j] ELSE lines[Len(lines)]]]

\* nlpypline.util.igroup: groups of n, the last one filled up with None.
IGroup(lines, n) ==
    [g \in 1..((Len(lines) + n - 1) \div n) |->
        [j \in 1..n |-> IF (g - 1) * n + j <= Len(lines)
                        THEN lines[(g - 1) * n + j] ELSE NoneLine]]

\* A sort that leaves the list as it was.
NoSort(seq, keys) == seq

\* list.sort(key=...): stable; keys[i] is the key of seq[i].
StableSort(seq, keys) ==
    LET rank(i) == 1 + Cardinality({ j \in DOMAIN seq :
                        \/ keys[j] < keys[i]
                        \/ keys[j] = keys[i] /\ j < i })
    IN  [r \in DOMAIN seq |-> seq[CHOOSE i \in DOMAIN seq : rank(i) = r]]

\* list.index: the first position of x (from 0).
ListIndex(list, x) == (CHOOSE i \in DOMAIN list :
                         list[i] = x /\ \A j \in 1..(i - 1) : list[j] # x) - 1

TokenLemma(sentence, t) == sentence[t + 1]

\* _get_dependency_token_from_tregex_line raises ValueError on a suffix
\* that is no number and IndexError on one past the last token.
TokenLineRaises(line, sentence) ==
    ~line.numeric \/ line.suffix >= Len(sentence)

\* _process_tregex_for_sentence, lines 712-753, for one batch of lines.
\* raised: an exception leaves the function; skip: the batch is dropped.
ProcessMatch(match_lines, unit, sentence_index, sentence) ==
    IF \E j \in DOMAIN match_lines : match_lines[j] = NoneLine
    THEN [raised |-> FALSE, skip |-> TRUE, pc |-> <<>>]
    ELSE IF \E j \in DOMAIN match_lines : TokenLineRaises(match_lines[j], sentence)
    THEN [raised |-> TRUE, skip |-> FALSE, pc |-> <<>>]
    ELSE LET connective == [j \in 1..(Len(match_lines) - 2) |-> match_lines[j + 2].suffix]
         IN  IF \E j \in DOMAIN connective :
                   TokenLemma(sentence, connective[j]) \notin Range(unit.connective_lemmas)
             THEN [raised |-> TRUE, skip |-> FALSE, pc |-> <<>>]
             ELSE [raised |-> FALSE, skip |-> FALSE,
                   pc |-> [sentence |-> sentence_index,
                           matching_patterns |-> <<unit.pattern>>,
                           connective |-> StableSort(connective,
                               [j \in DOMAIN connective |->
                                   ListIndex(unit.connective_lemmas,
                                             TokenLemma(sentence, connective[j]))]),
                           cause |-> match_lines[1].suffix,
                           effect |-> match_lines[2].suffix]]

\* _process_tregex_for_sentence: the candidates of one tree's lines, or
\* the exception that ends the thread.
ProcessTregexForSentence(lines, unit, sentence_index, sentence) ==
    LET groups == IGroup(lines, 2 + Len(unit.connective_labels))
        res == [g \in DOMAIN groups |->
                  ProcessMatch(groups[g], unit, sentence_index, sentence)]
        kept == SelectSeq(res, LAMBDA r : ~r.skip)
    IN  [raised |-> \E g \in DOMAIN res : res[g].raised,
         possible_causations |-> [g \in DOMAIN kept |-> kept[g].pc]]

\* ------------------------------------------------------------ the queue
\* A get that leaves the item in the queue.
QueueGetPeek(q) == [item |-> Head(q), rest |-> q]

\* Queue.get_nowait on a non-empty queue: the head leaves the queue.
QueueGet(q) == [item |-> Head(q), rest |-> Tail(q)]

\* A join that does not wait.
QueueJoinNoWait(unfinished_tasks) == TRUE

\* Queue.join returns when unfinished_tasks is 0.
QueueJoinReturns(unfinished_tasks) == unfinished_tasks = 0

\* An assignment in place of the extend.
ListReplace(list, items) == items

\* list.extend, atomic under the interpreter lock.
ListExtend(list, items) == list \o items

\* A test that lets every unit through to the matcher.
ScanAnyway(unit) == FALSE

\* run(), line 573: "if not possible_sentence_indices".
NoSentencesToScan(unit) == unit.possible_sentence_indices = <<>>

\* run(), lines 577-578.
PossibleTrees(unit) ==
    [j \in DOMAIN unit.possible_sentence_indices |->
        ptb_strings[unit.possible_sentence_indices[j]]]

UnitFile(unit) == CacheFileName(unit.pattern, PossibleTrees(unit))

ZeroPerPattern == [t \in PatternTexts |-> 0]

\* self._ptb_strings = None (lines 47 and 64).
NoPtbStrings == [is_none |-> TRUE, strings |-> <<>>]

\* self._ptb_strings = ptb_strings (line 56).
StashedPtbStrings(strings) == [is_none |-> FALSE, strings |-> strings]

\* ------------------------------------------------- state after construction
\* Before the first call of test(): nothing queued, no thread, an empty
\* cache directory.
SchedStart ==
    /\ mainpc = "init"
    /\ calls = 0
    /\ ptb_strings = <<>>
    /\ queue = <<>>
    /\ unfinished = 0
    /\ predicted_outputs = <<>>
    /\ wpc = [w \in Workers |-> "unstarted"]
    /\ wunit = [w \in Workers |-> NoUnit]
    /\ widx = [w \in Workers |-> 0]
    /\ wfile = [w \in Workers |-> NoFile]
    /\ wpos = [w \in Workers |-> 0]
    /\ cache = <<>>
    /\ taken = ZeroPerPattern
    /\ doneCount = ZeroPerPattern
    /\ parsedLog = {}
    /\ spawned = ZeroPerPattern
    /\ foundInCache = [t \in PatternTexts |-> "unknown"]
    /\ prev_outputs = <<>>
    /\ extending = 0
    /\ wpossible = [w \in Workers |-> <<>>]

SchedInit ==
    /\ sentences \in SentenceLists
    /\ tregex_patterns \in PatternLists
    /\ \/ badPattern = NoPattern /\ badKind = "none"
       \/ /\ badPattern \in {tregex_patterns[i].text : i \in DOMAIN tregex_patterns}
          /\ badKind \in {"fail", "malformed"}
    /\ SchedStart

DedupIdle ==
    /\ sentence_pcs = <<>>
    /\ deduplicated = <<>>
    /\ raw_pcs = <<>>
    /\ dedupDone = FALSE
    /\ rededuplicated = <<>>
    /\ rededupDone = FALSE
    /\ possible_causations = <<>>

\* No training, no progress reporter, no overlap resolution under way.
TrainIdle ==
    /\ train_instances = <<>>
    /\ xpos = 0
    /\ patterns_seen = {}
    /\ generated = <<>>
    /\ self_ptb_strings = NoPtbStrings

ReportIdle ==
    /\ file_lock = [w \in Workers |-> "free"]
    /\ total_bytes_output = [w \in Workers |-> 0]
    /\ rpc = "unstarted"
    /\ rthread = 0
    /\ bytes_output = 0
    /\ progress = <<0, 1>>
    /\ last_progress = [w \in Workers |-> 0]

DecodeIdle ==
    /\ classifier_parts = <<>>
    /\ labels = <<>>
    /\ causation_instances = <<>>
    /\ decoded = FALSE

\* No directory name being made.
DirIdle ==
    /\ dir_pattern = <<>>
    /\ pattern_hash = [negative |-> FALSE, digits |-> <<"0">>]
    /\ pattern_dir_name = <<>>

\* Lines 107-108 of candidate_filter_single_forest.py and 69-70 of
\* candidate_classifier.py: __cached_tenses = {} and
\* __cached_tenses_sentence = None in both classes.
NoCachedTenses == <<>>
NoCachedSentence == 0

TenseIdle ==
    /\ cached_tenses = [c \in TenseClasses |-> NoCachedTenses]
    /\ cached_tenses_sentence = [c \in TenseClasses |-> NoCachedSentence]
    /\ tense_calls = <<>>

SideIdle == TrainIdle /\ ReportIdle /\ DecodeIdle /\ DirIdle /\ TenseIdle

Init == SchedInit /\ DedupIdle /\ SideIdle

\* ------------------------------------------------- TRegexConnectiveModel.test
\* Lines 62-90: take the tree strings training has left, or preprocess
\* the sentences; queue one tuple per stored pattern (also one whose
\* sentence subset is empty), allocate one output list per sentence.
MEnqueue ==
    /\ mainpc = "init"
    /\ calls' = calls + 1
    /\ ptb_strings' = IF ~self_ptb_strings.is_none
                      THEN self_ptb_strings.strings
                      ELSE PreprocessSentences(sentences)
    /\ self_ptb_strings' = NoPtbStrings
    /\ queue' = QueuedUnits(sentences, tregex_patterns)
    /\ unfinished' = Len(queue')
    /\ predicted_outputs' = NewOutputLists(sentences)
    /\ mainpc' = "start"
    /\ UNCHANGED <<sentences, tregex_patterns, badPattern, badKind, wpc, wunit,
                   widx, wfile, wpos, cache, taken, doneCount, parsedLog,
                   spawned, foundInCache, prev_outputs,
                   lockVars, dedupVars, reportVars, decodeVars, dirVars, tenseVars,
                   train_instances, xpos, patterns_seen, generated>>

\* Lines 93-97: the threads are started one after the other.
MStartThread(w) ==
    /\ mainpc = "start"
    /\ wpc[w] = "unstarted"
    /\ \A v \in Workers : v < w => wpc[v] # "unstarted"
    /\ wpc' = [wpc EXCEPT ![w] = "get"]
    /\ mainpc' = IF w = NumWorkers THEN "join" ELSE "start"
    /\ UNCHANGED <<sentences, tregex_patterns, badPattern, badKind, calls,
                   ptb_strings, queue, unfinished, predicted_outputs, wunit,
                   widx, wfile, wpos, cache, taken, doneCount, parsedLog,
                   spawned, foundInCache, prev_outputs,
                   lockVars, dedupVars, sideVars>>

\* Lines 105-115: queue.join(), then return predicted_outputs.  The
\* progress reporter only reads the threads' byte counts; it runs in
\* ReportSpec.
MJoin ==
    /\ mainpc = "join"
    /\ QueueJoinReturns(unfinished)
    /\ mainpc' = "returned"
    /\ UNCHANGED <<sentences, tregex_patterns, badPattern, badKind, calls,
                   ptb_strings, queue, unfinished, predicted_outputs, wpc, wunit,
                   widx, wfile, wpos, cache, taken, doneCount, parsedLog,
                   spawned, foundInCache, prev_outputs,
                   lockVars, dedupVars, sideVars>>

\* ------------------------------------------------- TregexProcessorThread.run
\* Lines 571-572 and 593-594: take the next tuple, or return on Queue.Empty.
WGet(w) ==
    /\ wpc[w] = "get"
    /\ IF queue = <<>>
       THEN /\ wpc' = [wpc EXCEPT ![w] = "exited"]
            /\ UNCHANGED <<queue, wunit, taken>>
       ELSE LET got == QueueGet(queue)
            IN  /\ queue' = got.rest
                /\ wunit' = [wunit EXCEPT ![w] = got.item]
                /\ taken' = [taken EXCEPT ![got.item.pattern] = @ + 1]
                /\ wpc' = [wpc EXCEPT ![w] = "got"]
    /\ UNCHANGED <<sentences, tregex_patterns, badPattern, badKind, mainpc, calls,
                   ptb_strings, unfinished, predicted_outputs, widx, wfile, wpos,
                   cache, doneCount, parsedLog, spawned, foundInCache,
                   prev_outputs,
                   lockVars, dedupVars, sideVars>>

\* A thread that returns after a unit with no sentences to scan.
WSkipEmptyAndReturn(w) ==
    /\ wpc[w] = "got"
    /\ NoSentencesToScan(wunit[w])
    /\ unfinished' = unfinished - 1
    /\ doneCount' = [doneCount EXCEPT ![wunit[w].pattern] = @ + 1]
    /\ wunit' = [wunit EXCEPT ![w] = NoUnit]
    /\ wpc' = [wpc EXCEPT ![w] = "exited"]
    /\ UNCHANGED <<sentences, tregex_patterns, badPattern, badKind, mainpc, calls,
                   ptb_strings, queue, predicted_outputs, widx, wfile, wpos,
                   cache, taken, parsedLog, spawned, foundInCache,
                   prev_outputs,
                   lockVars, dedupVars, sideVars>>

\* Lines 573-575: no sentences to scan: task_done, then on to the next
\* tuple.
WSkipEmpty(w) ==
    /\ wpc[w] = "got"
    /\ NoSentencesToScan(wunit[w])
    /\ unfinished' = unfinished - 1
    /\ doneCount' = [doneCount EXCEPT ![wunit[w].pattern] = @ + 1]
    /\ wunit' = [wunit EXCEPT ![w] = NoUnit]
    /\ wpc' = [wpc EXCEPT ![w] = "get"]
    /\ UNCHANGED <<sentences, tregex_patterns, badPattern, badKind, mainpc, calls,
                   ptb_strings, queue, predicted_outputs, widx, wfile, wpos,
                   cache, taken, parsedLog, spawned, foundInCache,
                   prev_outputs,
                   lockVars, dedupVars, sideVars>>

\* Lines 577-591 and 629-634: write the tree file, try to open the cached
\* output for reading.
WOpenCached(w) ==
    /\ wpc[w] = "got"
    /\ ~NoSentencesToScan(wunit[w])
    /\ foundInCache' = [foundInCache EXCEPT ![wunit[w].pattern] =
                            IF UnitFile(wunit[w]) \in DOMAIN cache
                            THEN "present" ELSE "absent"]
    /\ IF OpenForReadSucceeds(cache, UnitFile(wunit[w]))
       THEN /\ wfile' = [wfile EXCEPT ![w] = UnitFile(wunit[w])]
            /\ wpos' = [wpos EXCEPT ![w] = 0]
            /\ widx' = [widx EXCEPT ![w] = 1]
            /\ wpc' = [wpc EXCEPT ![w] = "parse"]
       ELSE /\ wpc' = [wpc EXCEPT ![w] = "create"]
            /\ UNCHANGED <<wfile, wpos, widx>>
    /\ UNCHANGED <<sentences, tregex_patterns, badPattern, badKind, mainpc, calls,
                   ptb_strings, queue, unfinished, predicted_outputs, wunit,
                   cache, taken, doneCount, parsedLog, spawned,
                   prev_outputs,
                   lockVars, dedupVars, sideVars>>

\* Lines 635-642 and 609-614: make the directory, open the cache file for
\* writing, start tregex.sh with the file as its standard output.
WCreateAndSpawn(w) ==
    /\ wpc[w] = "create"
    /\ cache' = OpenForWrite(cache, UnitFile(wunit[w]))
    /\ wfile' = [wfile EXCEPT ![w] = UnitFile(wunit[w])]
    /\ wpos' = [wpos EXCEPT ![w] = 0]
    /\ spawned' = [spawned EXCEPT ![wunit[w].pattern] = @ + 1]
    /\ wpc' = [wpc EXCEPT ![w] = "tool"]
    /\ UNCHANGED <<sentences, tregex_patterns, badPattern, badKind, mainpc, calls,
                   ptb_strings, queue, unfinished, predicted_outputs, wunit, widx,
                   taken, doneCount, parsedLog, foundInCache,
                   prev_outputs,
                   lockVars, dedupVars, sideVars>>

\* subprocess.call, lines 613-614 and 643: tregex.sh writes its output a
\* tree at a time while the thread waits; when it has exited the thread
\* seeks back to the start.
WTool(w) ==
    /\ wpc[w] = "tool"
    /\ LET out == TregexOutput(wunit[w], PossibleTrees(wunit[w]), badPattern, badKind)
       IN  IF wpos[w] < Len(out)
           THEN /\ cache' = [cache EXCEPT ![wfile[w]] =
                                WriteBlock(@, wpos[w] + 1, out[wpos[w] + 1])]
                /\ wpos' = [wpos EXCEPT ![w] = @ + 1]
                /\ UNCHANGED <<wpc, widx>>
           ELSE /\ wpos' = [wpos EXCEPT ![w] = 0]
                /\ widx' = [widx EXCEPT ![w] = 1]
                /\ wpc' = [wpc EXCEPT ![w] = "parse"]
                /\ UNCHANGED cache
    /\ UNCHANGED <<sentences, tregex_patterns, badPattern, badKind, mainpc, calls,
                   ptb_strings, queue, unfinished, predicted_outputs, wunit, wfile,
                   taken, doneCount, parsedLog, spawned, foundInCache,
                   prev_outputs,
                   lockVars, dedupVars, sideVars>>

\* The outcomes of reading a tree's lines out of bytes never written: they
\* parse to nothing, or to labels without a numeric suffix.
HoleReads == { <<>>, <<BadLine("x"), BadLine("x"), BadLine("x")>> }

\* _process_pattern, lines 651-659: parse the next sentence's lines and
\* extend its output list; an exception of the parser ends the thread.
WParse(w) ==
    /\ wpc[w] = "parse"
    /\ widx[w] <= Len(wunit[w].possible_sentence_indices)
    /\ LET i == wunit[w].possible_sentence_indices[widx[w]]
           file == cache[wfile[w]]
           block == ReadBlock(file, wpos[w] + 1)
       IN  \E lines \in (IF block.hole THEN HoleReads ELSE {block.lines}) :
             LET r == ProcessTregexForSentence(lines, wunit[w], i, sentences[i])
             IN  IF r.raised
                 THEN /\ wpc' = [wpc EXCEPT ![w] = "crashed"]
                      /\ UNCHANGED <<predicted_outputs, parsedLog, widx, wpos>>
                 ELSE /\ predicted_outputs' =
                            [predicted_outputs EXCEPT ![i] =
                                ListExtend(@, r.possible_causations)]
                      /\ parsedLog' = parsedLog \cup
                            {[pattern |-> wunit[w].pattern, sentence |-> i,
                              pcs |-> r.possible_causations]}
                      /\ widx' = [widx EXCEPT ![w] = @ + 1]
                      /\ wpos' = [wpos EXCEPT ![w] =
                                     IF @ < Len(file) THEN @ + 1 ELSE @]
                      /\ UNCHANGED wpc
    /\ UNCHANGED <<sentences, tregex_patterns, badPattern, badKind, mainpc, calls,
                   ptb_strings, queue, unfinished, wunit, wfile, cache,
                   taken, doneCount, spawned, foundInCache,
                   prev_outputs,
                   lockVars, dedupVars, sideVars>>

\* Lines 663-670 and 592: close the output file, mark the unit complete.
WTaskDone(w) ==
    /\ wpc[w] = "parse"
    /\ widx[w] > Len(wunit[w].possible_sentence_indices)
    /\ unfinished' = unfinished - 1
    /\ doneCount' = [doneCount EXCEPT ![wunit[w].pattern] = @ + 1]
    /\ wunit' = [wunit EXCEPT ![w] = NoUnit]
    /\ wfile' = [wfile EXCEPT ![w] = NoFile]
    /\ wpos' = [wpos EXCEPT ![w] = 0]
    /\ widx' = [widx EXCEPT ![w] = 0]
    /\ wpc' = [wpc EXCEPT ![w] = "get"]
    /\ UNCHANGED <<sentences, tregex_patterns, badPattern, badKind, mainpc, calls,
                   ptb_strings, queue, predicted_outputs, cache, taken,
                   parsedLog, spawned, foundInCache, prev_outputs,
                   lockVars, dedupVars, sideVars>>

\* A lock nobody has to wait for.
InterpreterLockAlwaysFree(holder) == TRUE

\* Lines 654-659: list.extend runs under the interpreter lock, which one
\* thread holds at a time.
InterpreterLockFree(holder) == holder = 0

\* _process_pattern, lines 652-658, up to the call of extend: the
\* sentence's lines are read and parsed and the thread enters
\* list.extend; an exception of the parser ends the thread.
WParseOnly(w) ==
    /\ wpc[w] = "parse"
    /\ widx[w] <= Len(wunit[w].possible_sentence_indices)
    /\ InterpreterLockFree(extending)
    /\ LET i == wunit[w].possible_sentence_indices[widx[w]]
           file == cache[wfile[w]]
           block == ReadBlock(file, wpos[w] + 1)
       IN  \E lines \in (IF block.hole THEN HoleReads ELSE {block.lines}) :
             LET r == ProcessTregexForSentence(lines, wunit[w], i, sentences[i])
             IN  IF r.raised
                 THEN /\ wpc' = [wpc EXCEPT ![w] = "crashed"]
                      /\ UNCHANGED <<wpos, extending, wpossible>>
                 ELSE /\ wpossible' = [wpossible EXCEPT ![w] = r.possible_causations]
                      /\ extending' = w
                      /\ wpos' = [wpos EXCEPT ![w] =
                                     IF @ < Len(file) THEN @ + 1 ELSE @]
                      /\ wpc' = [wpc EXCEPT ![w] = "extend"]
    /\ UNCHANGED <<sentences, tregex_patterns, badPattern, badKind, mainpc, calls,
                   ptb_strings, queue, unfinished, predicted_outputs, wunit, widx,
                   wfile, cache, taken, doneCount, parsedLog, spawned,
                   foundInCache, prev_outputs, dedupVars, sideVars>>

\* Lines 658-659: the extend is done and the thread goes on to the next
\* sentence.
WExtendDone(w) ==
    /\ wpc[w] = "extend"
    /\ LET i == wunit[w].possible_sentence_indices[widx[w]]
       IN  /\ predicted_outputs' =
                 [predicted_outputs EXCEPT ![i] = ListExtend(@, wpossible[w])]
           /\ parsedLog' = parsedLog \cup
                 {[pattern |-> wunit[w].pattern, sentence |-> i,
                   pcs |-> wpossible[w]]}
    /\ widx' = [widx EXCEPT ![w] = @ + 1]
    /\ wpossible' = [wpossible EXCEPT ![w] = <<>>]
    /\ extending' = IF extending = w THEN 0 ELSE extending
    /\ wpc' = [wpc EXCEPT ![w] = "parse"]
    /\ UNCHANGED <<sentences, tregex_patterns, badPattern, badKind, mainpc, calls,
                   ptb_strings, queue, unfinished, wunit, wfile, wpos, cache,
                   taken, doneCount, spawned, foundInCache, prev_outputs,
                   dedupVars, sideVars>>

WorkerStep(w) ==
    \/ WGet(w)
    \/ WSkipEmpty(w)
    \/ WOpenCached(w)
    \/ WCreateAndSpawn(w)
    \/ WTool(w)
    \/ WParse(w)
    \/ WTaskDone(w)

MainStep ==
    \/ MEnqueue
    \/ \E w \in Workers : MStartThread(w)
    \/ MJoin

Next ==
    \/ MainStep
    \/ \E w \in Workers : WorkerStep(w)

Spec == Init /\ [][Next]_vars

\* The same threads with the extend shown as a step that takes time: the
\* parsing of a sentence and the extend of its list are two steps, with
\* the interpreter lock held in between.
WorkerStepFine(w) ==
    \/ WGet(w)
    \/ WSkipEmpty(w)
    \/ WOpenCached(w)
    \/ WCreateAndSpawn(w)
    \/ WTool(w)
    \/ WParseOnly(w)
    \/ WExtendDone(w)
    \/ WTaskDone(w)

NextFine ==
    \/ MainStep
    \/ \E w \in Workers : WorkerStepFine(w)

SpecFine == Init /\ [][NextFine]_vars

\* A second call of test() on the same model and sentences: new queue,
\* new output lists, new threads; the cache directory stays.  The threads
\* of the call that returned hold no unit and can only leave on
\* Queue.Empty, so they are dropped.
TestCalls == 2

MTestAgain ==
    /\ mainpc = "returned"
    /\ calls < TestCalls
    /\ prev_outputs' = predicted_outputs
    /\ mainpc' = "init"
    /\ ptb_strings' = <<>>
    /\ queue' = <<>>
    /\ predicted_outputs' = <<>>
    /\ wpc' = [w \in Workers |-> "unstarted"]
    /\ taken' = ZeroPerPattern
    /\ doneCount' = ZeroPerPattern
    /\ spawned' = ZeroPerPattern
    /\ parsedLog' = {}
    /\ foundInCache' = [t \in PatternTexts |-> "unknown"]
    /\ UNCHANGED <<sentences, tregex_patterns, badPattern, badKind, calls,
                   unfinished, wunit, widx, wfile, wpos, cache,
                   lockVars, dedupVars, sideVars>>

NextTwice == Next \/ MTestAgain

SpecTwice == Init /\ [][NextTwice]_vars

\* Every started thread and the main thread keep being scheduled.
FairSpec ==
    /\ Init /\ [][Next]_vars
    /\ WF_vars(MainStep)
    /\ \A w \in Workers : WF_vars(WorkerStep(w))

\* ----------------------------------------- TRegexConnectiveStage.__deduplicate
\* causeway.get_causation_tuple: the connective's token indices, the
\* cause's and the effect's.
GetCausationTuple(connective, cause, effect) == <<connective, cause, effect>>

\* A later duplicate replaces the earlier candidate.
DedupDictOverwrite(pcs) ==
    LET RECURSIVE Fold(_, _)
        Fold(rest, d) ==
            IF rest = <<>> THEN d
            ELSE LET pc == Head(rest)
                     pc_tuple == GetCausationTuple(pc.connective, pc.cause, pc.effect)
                 IN  Fold(Tail(rest), [k \in DOMAIN d \cup {pc_tuple} |->
                                         IF k = pc_tuple THEN pc ELSE d[k]])
    IN  Fold(pcs, <<>>)

\* Lines 821-830: pc_tuples_to_pcs after the loop.  The first candidate of
\* a key is stored; a later one appends its first pattern to the stored
\* candidate's matching_patterns.
DedupDict(pcs) ==
    LET RECURSIVE Fold(_, _)
        Fold(rest, d) ==
            IF rest = <<>> THEN d
            ELSE LET pc == Head(rest)
                     pc_tuple == GetCausationTuple(pc.connective, pc.cause, pc.effect)
                 IN  IF pc_tuple \notin DOMAIN d
                     THEN Fold(Tail(rest), [k \in DOMAIN d \cup {pc_tuple} |->
                                              IF k = pc_tuple THEN pc ELSE d[k]])
                     ELSE Fold(Tail(rest),
                               [d EXCEPT ![pc_tuple].matching_patterns =
                                   Append(@, pc.matching_patterns[1])])
    IN  Fold(pcs, <<>>)

\* dict.values(): the stored candidates in the dictionary's own order,
\* which the language leaves open: any order of the keys.
DictValueOrders(d) ==
    { order \in [1..Cardinality(DOMAIN d) -> DOMAIN d] :
        \A a, b \in 1..Cardinality(DOMAIN d) : a # b => order[a] # order[b] }

\* The list sorted, its duplicates left in.
DeduplicateSortOnly(pcs, order) ==
    StableSort(pcs, [j \in DOMAIN pcs |-> pcs[j].connective[1]])

\* Lines 831-833: the values in the order given, sorted (stably) by the
\* index of the first connective token.
Deduplicate(pcs, order) ==
    StableSort([j \in DOMAIN order |-> DedupDict(pcs)[order[j]]],
               [j \in DOMAIN order |-> DedupDict(pcs)[order[j]].connective[1]])

\* The stored candidates are the list's own objects: the first candidate
\* of each key in the list has gained the patterns appended to it.
AfterDeduplicate(pcs) ==
    [j \in DOMAIN pcs |->
        LET pc_tuple == GetCausationTuple(pcs[j].connective, pcs[j].cause, pcs[j].effect)
        IN  IF \A h \in 1..(j - 1) :
                  GetCausationTuple(pcs[h].connective, pcs[h].cause, pcs[h].effect)
                      # pc_tuple
            THEN DedupDict(pcs)[pc_tuple] ELSE pcs[j]]

\* The candidates result parsing can hand over for one sentence: each with
\* the one pattern that matched.
RawCandidates ==
    [sentence : {1},
     matching_patterns : { <<PatternPool[1].text>>, <<PatternPool[3].text>> },
     connective : { <<1>>, <<2>>, <<1, 3>> },
     cause : {0},
     effect : {4, 5}]

\* A fixed state of the scheduler, for the runs that only deduplicate.
SchedIdle ==
    /\ sentences = [i \in 1..NumSentences |-> SentenceA]
    /\ tregex_patterns = <<PatternPool[1]>>
    /\ badPattern = NoPattern /\ badKind = "none"
    /\ SchedStart

DedupInit == SchedIdle /\ DedupIdle /\ SideIdle

\* One more raw candidate in the list to deduplicate.
DAddRaw ==
    /\ ~dedupDone
    /\ Len(sentence_pcs) < MaxRaw
    /\ \E pc \in RawCandidates : sentence_pcs' = Append(sentence_pcs, pc)
    /\ UNCHANGED <<deduplicated, raw_pcs, dedupDone, rededuplicated,
                   rededupDone, possible_causations, schedVars, sideVars>>

\* The call of __deduplicate.
DDeduplicate ==
    /\ ~dedupDone
    /\ raw_pcs' = sentence_pcs
    /\ \E order \in DictValueOrders(DedupDict(sentence_pcs)) :
          deduplicated' = Deduplicate(sentence_pcs, order)
    /\ sentence_pcs' = AfterDeduplicate(sentence_pcs)
    /\ dedupDone' = TRUE
    /\ UNCHANGED <<rededuplicated, rededupDone, possible_causations, schedVars, sideVars>>

DedupNext == DAddRaw \/ DDeduplicate

DedupSpec == DedupInit /\ [][DedupNext]_vars

\* __deduplicate called again, on the list the first call returned.  That
\* list holds no key twice, so the call changes none of its candidates.
DDeduplicateAgain ==
    /\ dedupDone
    /\ ~rededupDone
    /\ \E order \in DictValueOrders(DedupDict(deduplicated)) :
          rededuplicated' = Deduplicate(deduplicated, order)
    /\ rededupDone' = TRUE
    /\ UNCHANGED <<sentence_pcs, deduplicated, raw_pcs, dedupDone,
                   possible_causations, schedVars, sideVars>>

DedupTwiceNext == DedupNext \/ DDeduplicateAgain

DedupTwiceSpec == DedupInit /\ [][DedupTwiceNext]_vars

\* ------------------------------------------ the sentence filter on its own
\* Connective tokens of one pattern (k of line 710, scaled down).
MaxConnective == 3

Lemmas == {"a", "b"}

\* connective_lemmas of a stored pattern: one lemma per connective word;
\* a lemma can come twice.
LemmaLists == UNION { [1..n -> Lemmas] : n \in 1..MaxConnective }

LabelNames == <<"connective_0", "connective_1", "connective_2",
                "connective_3", "connective_4", "connective_5">>

\* A stored pattern with these connective lemmas, one label per lemma.
PatternWithLemmas(lemmas) ==
    [text |-> PatternPool[3].text,
     labels |-> SubSeq(LabelNames, 1, Len(lemmas)),
     lemmas |-> lemmas]

FilterSentences ==
    { <<"ROOT", "a">>, <<"ROOT", "b">>, <<"ROOT", "a", "b">>, <<"ROOT", "b", "b">> }

\* test() called with any sentences on a model that holds one pattern.
FilterInit ==
    /\ sentences \in UNION { [1..n -> FilterSentences] : n \in 1..NumSentences }
    /\ tregex_patterns \in { <<PatternWithLemmas(l)>> : l \in LemmaLists }
    /\ badPattern = NoPattern /\ badKind = "none"
    /\ SchedStart
    /\ DedupIdle
    /\ SideIdle

FilterSpec == FilterInit /\ [][MEnqueue]_vars

\* ------------------------------------------- result parsing on its own
\* Lines the matcher prints for one tree.
MaxLines == 6

ParseSentence == <<"ROOT", "a", "b", "a">>

\* The line the matcher prints for token t of ParseSentence.
TokenLine(t) == Line(ParseSentence[t + 1], t)

LineAlphabet == { TokenLine(t) : t \in 1..(Len(ParseSentence) - 1) } \cup { BadLine("x") }

\* What the matcher can have printed for one tree and a pattern of k
\* connective labels: in every full batch of 2 + k lines the cause and
\* the effect are tokens 1 and 2 and the connective lines are any lines;
\* the lines after the last full batch are any lines.
PrintedLines(k) ==
    { ls \in UNION { [1..n -> LineAlphabet] : n \in 0..MaxLines } :
        \A i \in DOMAIN ls :
            LET j == ((i - 1) % (2 + k)) + 1
                fullBatch == ((i - 1) \div (2 + k)) * (2 + k) + (2 + k) <= Len(ls)
            IN  (fullBatch /\ j <= 2) => ls[i] = TokenLine(j) }

\* test() on one sentence and one stored pattern, at the point where a
\* thread has taken the pattern's unit, the matcher has written its
\* output to the cache file and exited, and the thread is about to parse.
ParseInit ==
    /\ sentences = <<ParseSentence>>
    /\ tregex_patterns \in { <<PatternWithLemmas(l)>> : l \in LemmaLists }
    /\ badPattern = NoPattern /\ badKind = "none"
    /\ mainpc = "join"
    /\ calls = 1
    /\ ptb_strings = PreprocessSentences(sentences)
    /\ queue = <<>>
    /\ unfinished = 1
    /\ predicted_outputs = NewOutputLists(sentences)
    /\ wpc = [w \in Workers |-> IF w = 1 THEN "parse" ELSE "exited"]
    /\ wunit = [w \in Workers |->
                   IF w = 1 THEN WorkUnit(sentences, tregex_patterns[1]) ELSE NoUnit]
    /\ widx = [w \in Workers |-> IF w = 1 THEN 1 ELSE 0]
    /\ wfile = [w \in Workers |-> IF w = 1 THEN UnitFile(wunit[1]) ELSE NoFile]
    /\ wpos = [w \in Workers |-> 0]
    /\ \E ls \in PrintedLines(Len(tregex_patterns[1].labels)) :
          cache = [name \in {wfile[1]} |-> <<Block(ls)>>]
    /\ taken = [ZeroPerPattern EXCEPT ![tregex_patterns[1].text] = 1]
    /\ doneCount = ZeroPerPattern
    /\ parsedLog = {}
    /\ spawned = [ZeroPerPattern EXCEPT ![tregex_patterns[1].text] = 1]
    /\ foundInCache = [t \in PatternTexts |->
                          IF t = tregex_patterns[1].text THEN "absent" ELSE "unknown"]
    /\ prev_outputs = <<>>
    /\ extending = 0
    /\ wpossible = [w \in Workers |-> <<>>]
    /\ DedupIdle
    /\ SideIdle

ParseNext == \E w \in Workers : WParse(w) \/ WTaskDone(w)

ParseSpec == ParseInit /\ [][ParseNext]_vars

\* ------------------------------------- TRegexConnectiveStage._test_documents
\* Lines 839-845: after model.test() has returned, the next list of the
\* iterator over its result is deduplicated for the next sentence.  The
\* iterator running out inside the loop raises StopIteration.
TDeduplicate ==
    /\ mainpc \in {"returned", "dedup"}
    /\ Len(possible_causations) < Len(sentences)
    /\ LET i == Len(possible_causations) + 1
       IN  IF i > Len(predicted_outputs)
           THEN /\ mainpc' = "stop_iteration"
                /\ UNCHANGED <<possible_causations, predicted_outputs>>
           ELSE /\ \E order \in DictValueOrders(DedupDict(predicted_outputs[i])) :
                      possible_causations' =
                          Append(possible_causations,
                                 Deduplicate(predicted_outputs[i], order))
                /\ predicted_outputs' =
                      [predicted_outputs EXCEPT ![i] = AfterDeduplicate(@)]
                /\ mainpc' = "dedup"
    /\ UNCHANGED <<sentences, tregex_patterns, badPattern, badKind, calls,
                   ptb_strings, queue, unfinished, wpc, wunit, widx, wfile, wpos,
                   cache, taken, doneCount, parsedLog, spawned, foundInCache,
                   prev_outputs, lockVars, sentence_pcs, deduplicated, raw_pcs,
                   dedupDone,
                   rededuplicated, rededupDone, sideVars>>

\* Lines 846-850: after the last sentence the iterator must be exhausted,
\* or the assertion "Should have as many causation lists as sentences!"
\* fails.
TCheckExhausted ==
    /\ mainpc \in {"returned", "dedup"}
    /\ Len(possible_causations) = Len(sentences)
    /\ mainpc' = IF Len(predicted_outputs) > Len(possible_causations)
                 THEN "assert_failed" ELSE "done"
    /\ UNCHANGED <<sentences, tregex_patterns, badPattern, badKind, calls,
                   ptb_strings, queue, unfinished, predicted_outputs, wpc, wunit,
                   widx, wfile, wpos, cache, taken, doneCount, parsedLog,
                   spawned, foundInCache, prev_outputs,
                   lockVars, dedupVars, sideVars>>

StageNext == Next \/ TDeduplicate \/ TCheckExhausted

StageSpec == Init /\ [][StageNext]_vars

\* ------------------------------------------------------ pattern generation
\* A pattern text is the sequence of the pieces its string is put together
\* from; every '/' is a piece of its own.
\*
\* A training instance is a causation instance with what
\* _get_dependency_pattern has worked out for it:
\*   lemmas, pos      the sentence's tokens (token 0 is ROOT),
\*   edge_labels      sentence.edge_labels on the edges of the Steiner tree,
\*   connective       the connective's token indices,
\*   cause, effect    the indices of the argument heads (NoArg: no argument),
\*   steiner_nodes, steiner_graph   what steiner_tree returned: the nodes
\*                    added and the tree's edges (head, dependent), weight 1,
\*   longest_path     what longest_path_in_tree returned.

\* FLAGS.tregex_max_steiners.
TregexMaxSteiners == 6

\* instance.cause or instance.effect of an instance without this argument.
NoArg == 0

SteinerNames == <<"steiner_0", "steiner_1", "steiner_2", "steiner_3",
                  "steiner_4", "steiner_5", "steiner_6", "steiner_7">>

Reverse(s) == [i \in DOMAIN s |-> s[Len(s) + 1 - i]]

\* (None, None).
NoneResult == [is_none |-> TRUE, pattern |-> <<>>, node_names |-> <<>>]

\* The name _get_dep_node_pattern gives a node (lines 215-227): connective
\* before Steiner node before argument; an argument that is not the effect
\* head is called the cause.
NodeName(inst, node_index) ==
    IF node_index \in Range(inst.connective)
    THEN LabelNames[ListIndex(inst.connective, node_index) + 1]
    ELSE IF node_index \in Range(inst.steiner_nodes)
    THEN SteinerNames[ListIndex(inst.steiner_nodes, node_index) + 1]
    ELSE IF node_index = inst.effect THEN "effect" ELSE "cause"

\* _get_dep_node_pattern: '/^lemma_[0-9]+$/=name <2 /^POS.*/' for a
\* connective token, '/.*_[0-9]+/=name' for any other.
GetDepNodePattern(inst, node_index) ==
    IF node_index \in Range(inst.connective)
    THEN <<"/", "^", inst.lemmas[node_index + 1], "_[0-9]+$", "/", "=",
           NodeName(inst, node_index), " <2 ", "/", "^",
           inst.pos[node_index + 1], ".*", "/">>
    ELSE <<"/", ".*_[0-9]+", "/", "=", NodeName(inst, node_index)>>

\* _get_dep_edge_pattern: '[<1 label | ... | <1 dep]'.
GetDepEdgePattern(edge_label) ==
    LET options ==
            (IF edge_label \in {"nsubj", "csubj"} THEN <<"nsubj", "csubj">>
             ELSE IF edge_label \in {"nsubjpass", "csubjpass"}
             THEN <<"nsubjpass", "csubjpass">>
             ELSE <<edge_label>>)
            \o (IF edge_label # "dep" THEN <<"dep">> ELSE <<>>)
    IN  <<"[">>
        \o Flatten([i \in DOMAIN options |->
                      (IF i > 1 THEN <<" | ">> ELSE <<>>) \o <<"<1 ", options[i]>>])
        \o <<"]">>

\* steiner_graph[a, b].
Weight(inst, a, b) == IF <<a, b>> \in inst.steiner_graph THEN 1 ELSE 0

\* _add_dep_edge_to_pattern: the pattern with the edge and its end node
\* added, and the fragment that could not be embedded ('' when none).
AddDepEdgeToPattern(inst, pattern, node_pattern, edge_start, edge_end) ==
    IF Weight(inst, edge_start, edge_end) > Weight(inst, edge_end, edge_start)
    THEN [pattern |-> pattern \o <<" < (">> \o node_pattern \o <<" ">>
                      \o GetDepEdgePattern(inst.edge_labels[<<edge_start, edge_end>>]),
          independent_pattern |-> <<>>]
    ELSE LET edge_pattern ==
                 GetDepEdgePattern(inst.edge_labels[<<edge_end, edge_start>>])
         IN  IF pattern[Len(pattern)] = "]"
             THEN [pattern |-> pattern \o <<" > (">> \o node_pattern,
                   independent_pattern |->
                       <<"~", NodeName(inst, edge_end), " ">> \o edge_pattern]
             ELSE [pattern |-> pattern \o <<" ">> \o edge_pattern
                               \o <<" > (">> \o node_pattern,
                   independent_pattern |-> <<>>]

\* Lines 348-358: the path is turned round when the cause head comes after
\* the effect head on it; a head that is not on the path (ValueError)
\* leaves it as it is.
NormalizedPath(inst, longest_path) ==
    IF /\ inst.cause \in Range(longest_path)
       /\ inst.effect \in Range(longest_path)
       /\ ListIndex(longest_path, inst.cause) > ListIndex(longest_path, inst.effect)
    THEN Reverse(longest_path)
    ELSE longest_path

\* Lines 362-375 from the k-th node of the path on: acc holds the pattern
\* and the independent fragments so far.
RECURSIVE PathPattern(_, _, _, _)
PathPattern(inst, path, k, acc) ==
    IF k > Len(path) THEN acc
    ELSE LET end_node_pattern == GetDepNodePattern(inst, path[k])
             r == AddDepEdgeToPattern(inst, acc.pattern, end_node_pattern,
                                      path[k - 1], path[k])
         IN  PathPattern(inst, path, k + 1,
                 IF k = 1
                 THEN [pattern |-> <<"(">> \o end_node_pattern,
                       independent_patterns |-> <<>>]
                 ELSE [pattern |-> r.pattern,
                       independent_patterns |->
                           acc.independent_patterns
                           \o (IF r.independent_pattern # <<>>
                               THEN <<r.independent_pattern>> ELSE <<>>)])

\* zip(*steiner_graph.nonzero()): the edges row by row.
RECURSIVE EdgesInOrder(_)
EdgesInOrder(graph) ==
    IF graph = {} THEN <<>>
    ELSE LET m == CHOOSE e \in graph : \A f \in graph :
                      e[1] < f[1] \/ (e[1] = f[1] /\ e[2] <= f[2])
         IN  <<m>> \o EdgesInOrder(graph \ {m})

\* (a, b) in edges or (b, a) in edges, lines 390-391.
OnPath(path, a, b) ==
    \E k \in 1..(Len(path) - 1) :
        \/ path[k] = a /\ path[k + 1] = b
        \/ path[k] = b /\ path[k + 1] = a

\* get_named_node_pattern, lines 381-387.
NamedNodePattern(inst, named, node) ==
    IF node \in named THEN <<"=", NodeName(inst, node)>>
    ELSE <<"(">> \o GetDepNodePattern(inst, node) \o <<")">>

\* Lines 389-405 for the edges left: acc holds the pattern, the
\* independent fragments and the nodes named so far.
RECURSIVE RemainingPattern(_, _, _)
RemainingPattern(inst, rest, acc) ==
    IF rest = <<>> THEN acc
    ELSE LET edge_start == Head(rest)[1]
             edge_end == Head(rest)[2]
             start_node_pattern == NamedNodePattern(inst, acc.named, edge_start)
             end_node_pattern ==
                 NamedNodePattern(inst, acc.named \cup {edge_start}, edge_end)
             r == AddDepEdgeToPattern(inst, start_node_pattern, end_node_pattern,
                                      edge_start, edge_end)
         IN  RemainingPattern(inst, Tail(rest),
                 [pattern |-> acc.pattern \o <<" : (">> \o r.pattern \o <<"))">>,
                  independent_patterns |->
                      acc.independent_patterns
                      \o (IF r.independent_pattern # <<>>
                          THEN <<r.independent_pattern>> ELSE <<>>),
                  named |-> acc.named \cup {edge_start, edge_end}])

\* Lines 408-410.
RECURSIVE AddFragments(_, _)
AddFragments(pattern, frags) ==
    IF frags = <<>> THEN pattern
    ELSE AddFragments(pattern \o <<" : (">> \o Head(frags) \o <<")">>, Tail(frags))

\* Lines 421-425: an argument head that is a connective word gets its
\* argument name as a second name.
ArgInConnective(inst, arg, arg_name) ==
    IF arg \in Range(inst.connective)
    THEN <<" : (__=", arg_name, " == =", NodeName(inst, arg), ")">>
    ELSE <<>>

\* Lines 413-414: the names of the connective nodes, in the order of the
\* dict node_names (small integer keys: ascending).
RECURSIVE NodeNamesToPrint(_, _)
NodeNamesToPrint(inst, named) ==
    LET conn == named \cap Range(inst.connective)
    IN  IF conn = {} THEN <<>>
        ELSE LET m == CHOOSE n \in conn : \A o \in conn : n <= o
             IN  <<NodeName(inst, m)>> \o NodeNamesToPrint(inst, named \ {m})

\* The limit applies from the maximum itself.
TooManySteinersAtMax(steiner_nodes) == Len(steiner_nodes) >= TregexMaxSteiners

\* Line 325.
TooManySteiners(steiner_nodes) == Len(steiner_nodes) > TregexMaxSteiners

\* _generate_pattern_from_steiners in dependency mode.
GeneratePatternFromSteiners(inst) ==
    IF TooManySteiners(inst.steiner_nodes) THEN NoneResult
    ELSE LET path == NormalizedPath(inst, inst.longest_path)
             main == PathPattern(inst, path, 1,
                                 [pattern |-> <<>>, independent_patterns |-> <<>>])
             closed == main.pattern \o [k \in 1..Len(path) |-> ")"]
             rest == SelectSeq(EdgesInOrder(inst.steiner_graph),
                               LAMBDA e : ~OnPath(path, e[1], e[2]))
             all == RemainingPattern(inst, rest,
                        [pattern |-> closed,
                         independent_patterns |-> main.independent_patterns,
                         named |-> Range(path)])
         IN  [is_none |-> FALSE,
              pattern |-> AddFragments(all.pattern, all.independent_patterns)
                          \o ArgInConnective(inst, inst.cause, "cause")
                          \o ArgInConnective(inst, inst.effect, "effect")
                          \o ExclusionConstraint,
              node_names |-> NodeNamesToPrint(inst, all.named)]

\* _get_dependency_pattern, lines 439-440: the argument heads and the
\* connective tokens.
RequiredTokenIndices(inst) == {inst.cause, inst.effect} \cup Range(inst.connective)

\* Lines 449-457: the required tokens that have an edge in the sentence's
\* graph (the edges are those edge_labels names); the others were deleted
\* by the preprocessing and are dropped.
RequiredTokenIndicesToKeep(inst) ==
    { n \in RequiredTokenIndices(inst) :
        \E e \in DOMAIN inst.edge_labels : e[1] = n \/ e[2] = n }

\* The nodes of the tree steiner_tree returned (lines 459-461): the ends
\* of its edges.
SteinerTreeNodes(inst) ==
    {e[1] : e \in inst.steiner_graph} \cup {e[2] : e \in inst.steiner_graph}

\* Line 463: path_seed_index = connective_indices[0].
PathSeedIndex(inst) == inst.connective[1]

\* _get_dependency_pattern, lines 463-466.
GetDependencyPattern(inst) == GeneratePatternFromSteiners(inst)

\* _get_pattern, in dependency mode (the default).
GetPattern(inst) == GetDependencyPattern(inst)

\* --------------------------------------------------------------- training
\* Causation instances handed to one call of _extract_patterns.
MaxInstances == 2

\* "smoking causes cancer": the connective word heads both arguments.
SimpleInstance(cause, effect, longest_path) ==
    [lemmas |-> <<"ROOT", "smoking", "cause", "cancer">>,
     pos |-> <<"ROOT", "NN", "VB", "NN">>,
     edge_labels |-> (<<2, 1>> :> "nsubj" @@ <<2, 3>> :> "dobj"),
     connective |-> <<2>>, cause |-> cause, effect |-> effect,
     steiner_nodes |-> <<>>,
     steiner_graph |-> {<<2, 1>>, <<2, 3>>},
     longest_path |-> longest_path]

\* A connective of two words, the second one reached through a Steiner
\* node: the first word heads both arguments and the Steiner node, so a
\* longest path starts at the second word and ends at one argument.
StarInstance(longest_path) ==
    [lemmas |-> <<"ROOT", "rain", "cause", "flood", "be", "because">>,
     pos |-> <<"ROOT", "NN", "VB", "NN", "VB", "IN">>,
     edge_labels |-> (<<2, 1>> :> "nsubj" @@ <<2, 3>> :> "dobj"
                      @@ <<2, 4>> :> "dep" @@ <<4, 5>> :> "mark"),
     connective |-> <<2, 5>>, cause |-> 1, effect |-> 3,
     steiner_nodes |-> <<4>>,
     steiner_graph |-> {<<2, 1>>, <<2, 3>>, <<2, 4>>, <<4, 5>>},
     longest_path |-> longest_path]

\* The effect head reached from the connective word through n Steiner
\* nodes.
ChainInstance(n, reversed) ==
    [lemmas |-> [i \in 1..(n + 4) |->
                    IF i = 1 THEN "ROOT" ELSE IF i = 3 THEN "cause" ELSE "w"],
     pos |-> [i \in 1..(n + 4) |-> IF i = 1 THEN "ROOT" ELSE "VB"],
     edge_labels |-> [e \in {<<2, 1>>} \cup {<<k, k + 1>> : k \in 2..(n + 2)} |->
                        IF e = <<2, 1>> THEN "nsubj" ELSE "xcomp"],
     connective |-> <<2>>, cause |-> 1, effect |-> n + 3,
     steiner_nodes |-> [i \in 1..n |-> i + 2],
     steiner_graph |-> {<<2, 1>>} \cup {<<k, k + 1>> : k \in 2..(n + 2)},
     longest_path |-> IF reversed THEN Reverse([i \in 1..(n + 3) |-> i])
                      ELSE [i \in 1..(n + 3) |-> i]]

\* The cause head is the connective word itself.
ArgInConnectiveInstance(longest_path) ==
    [lemmas |-> <<"ROOT", "smoking", "cause", "cancer">>,
     pos |-> <<"ROOT", "NN", "VB", "NN">>,
     edge_labels |-> (<<2, 3>> :> "dobj"),
     connective |-> <<2>>, cause |-> 2, effect |-> 3,
     steiner_nodes |-> <<>>,
     steiner_graph |-> {<<2, 3>>},
     longest_path |-> longest_path]

\* "cancer is caused by smoking" with the connective "is caused": the
\* preprocessing has made the agent the subject and has left the auxiliary
\* without an edge, so that the tree is built on the other three tokens.
\* A search for the longest path that starts at a token without edges
\* finds that token alone.
DeletedConnectiveInstance ==
    [lemmas |-> <<"ROOT", "cancer", "be", "cause", "by", "smoking">>,
     pos |-> <<"ROOT", "NN", "VB", "VB", "IN", "NN">>,
     edge_labels |-> (<<3, 5>> :> "nsubj" @@ <<3, 1>> :> "dobj"),
     connective |-> <<2, 3>>, cause |-> 5, effect |-> 1,
     steiner_nodes |-> <<>>,
     steiner_graph |-> {<<3, 5>>, <<3, 1>>},
     longest_path |-> <<2>>]

\* The instances of the training sentences: each tree with the longest
\* paths longest_path_in_tree can return for it, in either direction;
\* instance.effect of the last one is None.
TrainingPool ==
    { SimpleInstance(1, 3, <<1, 2, 3>>), SimpleInstance(1, 3, <<3, 2, 1>>),
      SimpleInstance(3, 1, <<1, 2, 3>>), SimpleInstance(3, 1, <<3, 2, 1>>),
      StarInstance(<<5, 4, 2, 1>>), StarInstance(<<1, 2, 4, 5>>),
      StarInstance(<<5, 4, 2, 3>>), StarInstance(<<3, 2, 4, 5>>),
      ChainInstance(TregexMaxSteiners - 1, FALSE),
      ChainInstance(TregexMaxSteiners, FALSE),
      ChainInstance(TregexMaxSteiners, TRUE),
      ChainInstance(TregexMaxSteiners + 1, FALSE),
      ArgInConnectiveInstance(<<2, 3>>), ArgInConnectiveInstance(<<3, 2>>),
      DeletedConnectiveInstance,
      SimpleInstance(1, NoArg, <<1, 2, 3>>) }

\* Every pattern counts as new.
PatternNeverSeen(pattern, seen) == FALSE

\* Line 530: pattern not in patterns_seen, negated.
PatternSeen(pattern, seen) == pattern \in seen

\* Lines 537-540: the tuple stored for a new pattern.
StoredPattern(instance, r) ==
    [text |-> r.pattern, labels |-> r.node_names,
     lemmas |-> [j \in DOMAIN instance.connective |->
                    instance.lemmas[instance.connective[j] + 1]]]

\* A model just constructed (tregex_patterns = [], line 45), about to be
\* trained on some instances and then used on some sentences.
ExtractInit ==
    /\ train_instances \in UNION { [1..n -> TrainingPool] : n \in 1..MaxInstances }
    /\ xpos = 1
    /\ patterns_seen = {}
    /\ generated = <<>>
    /\ self_ptb_strings = NoPtbStrings
    /\ sentences \in SentenceLists
    /\ tregex_patterns = <<>>
    /\ badPattern = NoPattern /\ badKind = "none"
    /\ mainpc = "train"
    /\ calls = 0
    /\ ptb_strings = <<>>
    /\ queue = <<>>
    /\ unfinished = 0
    /\ predicted_outputs = <<>>
    /\ wpc = [w \in Workers |-> "unstarted"]
    /\ wunit = [w \in Workers |-> NoUnit]
    /\ widx = [w \in Workers |-> 0]
    /\ wfile = [w \in Workers |-> NoFile]
    /\ wpos = [w \in Workers |-> 0]
    /\ cache = <<>>
    /\ taken = ZeroPerPattern
    /\ doneCount = ZeroPerPattern
    /\ parsedLog = {}
    /\ spawned = ZeroPerPattern
    /\ foundInCache = [t \in PatternTexts |-> "unknown"]
    /\ prev_outputs = <<>>
    /\ extending = 0
    /\ wpossible = [w \in Workers |-> <<>>]
    /\ DedupIdle
    /\ ReportIdle
    /\ DecodeIdle
    /\ DirIdle
    /\ TenseIdle

\* The sentences _train_model is called on: one per causation instance.
TrainingSentences == [i \in DOMAIN train_instances |-> train_instances[i].lemmas]

\* _extract_patterns, lines 521-540: one pass of the loop over the
\* instances; after the last one _train_model keeps the preprocessed tree
\* strings of the training sentences (lines 513, 544 and 56) and the
\* model is ready for test().
XExtract ==
    /\ mainpc = "train"
    /\ xpos <= Len(train_instances)
    /\ LET instance == train_instances[xpos]
       IN  IF instance.cause # NoArg /\ instance.effect # NoArg
           THEN LET r == GetPattern(instance)
                IN  /\ generated' = Append(generated,
                                           [called |-> TRUE, result |-> r,
                                            path_seed_index |-> PathSeedIndex(instance)])
                    /\ IF r.is_none \/ PatternSeen(r.pattern, patterns_seen)
                       THEN UNCHANGED <<patterns_seen, tregex_patterns>>
                       ELSE /\ patterns_seen' = patterns_seen \cup {r.pattern}
                            /\ tregex_patterns' =
                                  Append(tregex_patterns, StoredPattern(instance, r))
           ELSE /\ generated' = Append(generated,
                                       [called |-> FALSE, result |-> NoneResult,
                                        path_seed_index |-> NoArg])
                /\ UNCHANGED <<patterns_seen, tregex_patterns>>
    /\ xpos' = xpos + 1
    /\ mainpc' = IF xpos = Len(train_instances) THEN "init" ELSE "train"
    /\ self_ptb_strings' =
          IF xpos = Len(train_instances)
          THEN StashedPtbStrings(PreprocessSentences(TrainingSentences))
          ELSE self_ptb_strings
    /\ UNCHANGED <<train_instances, sentences, badPattern, badKind, calls,
                   ptb_strings, queue, unfinished, predicted_outputs,
                   wpc, wunit, widx, wfile, wpos, cache, taken, doneCount,
                   parsedLog, spawned, foundInCache, prev_outputs,
                   lockVars, dedupVars, reportVars, decodeVars, dirVars, tenseVars>>

\* Training, then the queueing of test().
ExtractNext == XExtract \/ MEnqueue

ExtractSpec == ExtractInit /\ [][ExtractNext]_vars


\* ------------------------------------------- overlap resolution (decode)
\* PatternBasedFilterDecoder.decode of
\* src/src/causality_pipelines/candidate_filter_single_forest.py.
\* Parts handed to one call of decode.
MaxParts == 2

\* A pattern text without and one with a Steiner node.
PlainPattern == GetPattern(SimpleInstance(1, 3, <<1, 2, 3>>)).pattern
SteinerPattern == GetPattern(StarInstance(<<5, 4, 2, 1>>)).pattern

\* The PatternFilterParts of one sentence: candidates that differ in their
\* connective or cause, found by a pattern without Steiner nodes, by one
\* with, or by both (merged by __deduplicate).
PartPool ==
    [connective : {<<2>>, <<2, 5>>, <<5>>},
     cause : {1, 4},
     effect : {3},
     connective_patterns : {<<PlainPattern>>, <<SteinerPattern>>,
                            <<SteinerPattern, PlainPattern>>}]

\* 'steiner_0' in pattern.
HasSteinerZero(pattern) == \E i \in DOMAIN pattern : pattern[i] = "steiner_0"

\* Lines 385-391: in how many positive parts each connective token is.
TokensToParts(positive_parts, token) ==
    Cardinality(UNION { { <<p, j>> : j \in { j \in DOMAIN positive_parts[p].connective :
                                                positive_parts[p].connective[j] = token } } :
                        p \in DOMAIN positive_parts })

\* Lines 395-405: keep_part.
KeepPart(positive_parts, part) ==
    ~\E j \in DOMAIN part.connective :
        /\ TokensToParts(positive_parts, part.connective[j]) > 1
        /\ \E k \in DOMAIN part.connective_patterns :
               HasSteinerZero(part.connective_patterns[k])

\* decode: a CausationInstance for every positive part that is kept.
Decode(parts, part_labels) ==
    LET positive_parts ==
            LET ix == SelectSeq([i \in DOMAIN parts |-> i], LAMBDA i : part_labels[i])
            IN  [i \in DOMAIN ix |-> parts[ix[i]]]
        kept == SelectSeq(positive_parts, LAMBDA part : KeepPart(positive_parts, part))
    IN  [i \in DOMAIN kept |->
            [connective |-> kept[i].connective, cause |-> kept[i].cause,
             effect |-> kept[i].effect]]

\* decode about to be called on the parts of a sentence and their labels;
\* no two parts are the same candidate.
DecodeInit ==
    /\ classifier_parts \in UNION { [1..n -> PartPool] : n \in 1..MaxParts }
    /\ \A i, j \in DOMAIN classifier_parts :
           i # j => <<classifier_parts[i].connective, classifier_parts[i].cause>>
                      # <<classifier_parts[j].connective, classifier_parts[j].cause>>
    /\ labels \in [DOMAIN classifier_parts -> BOOLEAN]
    /\ causation_instances = <<>>
    /\ decoded = FALSE
    /\ SchedIdle
    /\ DedupIdle
    /\ TrainIdle
    /\ ReportIdle
    /\ DirIdle
    /\ TenseIdle

DDecode ==
    /\ ~decoded
    /\ causation_instances' = Decode(classifier_parts, labels)
    /\ decoded' = TRUE
    /\ UNCHANGED <<classifier_parts, labels, schedVars, dedupVars, trainVars,
                   reportVars, dirVars, tenseVars>>

DecodeSpec == DecodeInit /\ [][DDecode]_vars


\* ----------------------------------------------------- progress reporting
\* test() with its progress reporter: the end of _process_pattern is shown
\* step by step, and the reporter thread asks every thread for its
\* progress.  Byte counts are whole numbers; the estimate is kept in
\* hundredths of a byte and a fraction as <<numerator, denominator>>.

\* int(log10(n)) for the sentence counts of this model.
IntLog10(n) == IF n < 10 THEN 0 ELSE IF n < 100 THEN 1 ELSE 2

\* test(), lines 85-87, for one pattern, in hundredths:
\* sum(1.85 * (int(log10(i + 1)) + 3) for i in range(n)).
RECURSIVE EstimateForSubset(_)
EstimateForSubset(n) ==
    IF n = 0 THEN 0
    ELSE 185 * (IntLog10(n) + 3) + EstimateForSubset(n - 1)

\* total_estimated_bytes when the queue has been filled, in hundredths.
RECURSIVE TotalEstimatedBytes(_, _)
TotalEstimatedBytes(sents, patterns) ==
    IF patterns = <<>> THEN 0
    ELSE EstimateForSubset(Len(FilterSentencesForPattern(sents, Head(patterns).lemmas)))
         + TotalEstimatedBytes(sents, Tail(patterns))

\* The bytes of one tree's part of an output file: the line with the tree
\* number and the empty line, and the match lines.
BlockBytes(block) == 3 + 8 * Len(block.lines)

RECURSIVE BytesUpTo(_, _)
BytesUpTo(file, n) ==
    IF n = 0 \/ file = <<>> THEN 0
    ELSE BlockBytes(Head(file)) + BytesUpTo(Tail(file), n - 1)

\* self.output_file: None, an open file or a closed one.  The with
\* statement of line 650 closes the file when it is left, also by an
\* exception of the parser.
HandleState(w) ==
    IF wfile[w] = NoFile THEN "none"
    ELSE IF wpc[w] \in {"release", "clear", "crashed"} THEN "closed"
    ELSE "open"

\* self.output_file.tell() of an open file.
Tell(w) == BytesUpTo(cache[wfile[w]], wpos[w])

\* get_progress, line 770: the exceptions it catches.
Caught == {"AttributeError", "IOError", "ValueError"}

\* get_progress, lines 766-775, once the lock is held: the value returned,
\* or the exception that leaves the function.
GetProgress(w) ==
    LET raised == IF HandleState(w) = "none" THEN "AttributeError"
                  ELSE IF HandleState(w) = "closed" THEN "ValueError"
                  ELSE "none"
    IN  IF raised = "none"
        THEN [raised |-> "none", value |-> total_bytes_output[w] + Tell(w)]
        ELSE IF raised \in Caught
        THEN [raised |-> "none", value |-> total_bytes_output[w]]
        ELSE [raised |-> raised, value |-> 0]

\* The fraction without its upper limit.
ProgressUncapped(bytes, estimated) ==
    IF estimated = 0 THEN <<0, 1>> ELSE <<bytes * 100, estimated>>

\* report_progress_loop, lines 789-793:
\* min(bytes_output / float(total_estimated_bytes), 0.99), and 0 on
\* ZeroDivisionError; estimated is in hundredths.
ProgressFraction(bytes, estimated) ==
    IF estimated = 0 THEN <<0, 1>>
    ELSE IF bytes * 100 * 100 <= 99 * estimated THEN <<bytes * 100, estimated>>
    ELSE <<99, 100>>

\* A sentence that has the connective lemma and no match: its part of the
\* output file is the tree number line and the empty line.
SentenceUnmatched == <<"ROOT", "cause", "cancer">>

\* test() on one or two stored patterns, one of which matches no sentence
\* of a list without SentenceB, and on sentences with or without matches;
\* the matcher's output may be malformed.
ReportInit ==
    /\ sentences \in SentenceLists
                        \cup {[i \in 1..NumSentences |-> SentenceUnmatched]}
    /\ tregex_patterns \in { <<PatternPool[3]>>, <<PatternPool[4]>>,
                             <<PatternPool[3], PatternPool[4]>> }
    /\ \/ badPattern = NoPattern /\ badKind = "none"
       \/ /\ badPattern \in {tregex_patterns[i].text : i \in DOMAIN tregex_patterns}
          /\ badKind = "malformed"
    /\ SchedStart
    /\ DedupIdle
    /\ SideIdle

\* Line 663: the file's length is added to the thread's total.
WTotal(w) ==
    /\ wpc[w] = "parse"
    /\ widx[w] > Len(wunit[w].possible_sentence_indices)
    /\ total_bytes_output' = [total_bytes_output EXCEPT ![w] = @ + Tell(w)]
    /\ wpc' = [wpc EXCEPT ![w] = "lock"]
    /\ UNCHANGED <<sentences, tregex_patterns, badPattern, badKind, mainpc, calls,
                   ptb_strings, queue, unfinished, predicted_outputs, wunit,
                   widx, wfile, wpos, cache, taken, doneCount, parsedLog,
                   spawned, foundInCache, prev_outputs, lockVars, dedupVars,
                   trainVars, decodeVars, dirVars, tenseVars,
                   file_lock, rpc, rthread, bytes_output, progress,
                   last_progress>>

\* Line 666 and the end of the with statement: the thread takes its file
\* lock, waiting while the reporter holds it, and the file is closed.
WLockClose(w) ==
    /\ wpc[w] = "lock"
    /\ file_lock[w] = "free"
    /\ file_lock' = [file_lock EXCEPT ![w] = "worker"]
    /\ wpc' = [wpc EXCEPT ![w] = "release"]
    /\ UNCHANGED <<sentences, tregex_patterns, badPattern, badKind, mainpc, calls,
                   ptb_strings, queue, unfinished, predicted_outputs, wunit,
                   widx, wfile, wpos, cache, taken, doneCount, parsedLog,
                   spawned, foundInCache, prev_outputs, lockVars, dedupVars,
                   trainVars, decodeVars, dirVars, tenseVars,
                   total_bytes_output, rpc, rthread, bytes_output, progress,
                   last_progress>>

\* Line 668.
WRelease(w) ==
    /\ wpc[w] = "release"
    /\ file_lock' = [file_lock EXCEPT ![w] = "free"]
    /\ wpc' = [wpc EXCEPT ![w] = "clear"]
    /\ UNCHANGED <<sentences, tregex_patterns, badPattern, badKind, mainpc, calls,
                   ptb_strings, queue, unfinished, predicted_outputs, wunit,
                   widx, wfile, wpos, cache, taken, doneCount, parsedLog,
                   spawned, foundInCache, prev_outputs, lockVars, dedupVars,
                   trainVars, decodeVars, dirVars, tenseVars,
                   total_bytes_output, rpc, rthread, bytes_output, progress,
                   last_progress>>

\* Lines 670 and 592: output_file = None, then task_done.
WClear(w) ==
    /\ wpc[w] = "clear"
    /\ unfinished' = unfinished - 1
    /\ doneCount' = [doneCount EXCEPT ![wunit[w].pattern] = @ + 1]
    /\ wunit' = [wunit EXCEPT ![w] = NoUnit]
    /\ wfile' = [wfile EXCEPT ![w] = NoFile]
    /\ wpos' = [wpos EXCEPT ![w] = 0]
    /\ widx' = [widx EXCEPT ![w] = 0]
    /\ wpc' = [wpc EXCEPT ![w] = "get"]
    /\ UNCHANGED <<sentences, tregex_patterns, badPattern, badKind, mainpc, calls,
                   ptb_strings, queue, predicted_outputs, cache, taken,
                   parsedLog, spawned, foundInCache, prev_outputs,
                   lockVars, dedupVars, sideVars>>

\* Line 104: progress_reporter.start(), once the threads are started.
RStart ==
    /\ mainpc = "join"
    /\ rpc = "unstarted"
    /\ rpc' = "sleep"
    /\ UNCHANGED <<schedVars, dedupVars, trainVars, decodeVars, dirVars, tenseVars,
                   file_lock, total_bytes_output, rthread, bytes_output, progress,
                   last_progress>>

\* Lines 782-785: after the sleep the reporter returns when
\* all_threads_done is set, or starts to sum the threads' progress.
RWake ==
    /\ rpc = "sleep"
    /\ IF mainpc = "returned"
       THEN rpc' = "exited" /\ UNCHANGED <<rthread, bytes_output>>
       ELSE rpc' = "ask" /\ rthread' = 1 /\ bytes_output' = 0
    /\ UNCHANGED <<schedVars, dedupVars, trainVars, decodeVars, dirVars, tenseVars,
                   file_lock, total_bytes_output, progress, last_progress>>

\* get_progress, line 767: the reporter takes the thread's file lock,
\* waiting while the thread holds it.
RLock ==
    /\ rpc = "ask"
    /\ file_lock[rthread] = "free"
    /\ file_lock' = [file_lock EXCEPT ![rthread] = "reporter"]
    /\ rpc' = "tell"
    /\ UNCHANGED <<schedVars, dedupVars, trainVars, decodeVars, dirVars, tenseVars,
                   total_bytes_output, rthread, bytes_output, progress,
                   last_progress>>

\* get_progress, lines 768-775, and lines 785-793: the position is read
\* and the lock given back; after the last thread the fraction is
\* computed.  An exception get_progress lets through ends the reporter.
RTell ==
    /\ rpc = "tell"
    /\ file_lock' = [file_lock EXCEPT ![rthread] = "free"]
    /\ LET r == GetProgress(rthread)
       IN  IF r.raised # "none"
           THEN rpc' = "error"
                /\ UNCHANGED <<rthread, bytes_output, progress, last_progress>>
           ELSE /\ bytes_output' = bytes_output + r.value
                /\ last_progress' = [last_progress EXCEPT ![rthread] = r.value]
                /\ IF rthread < NumWorkers
                   THEN rthread' = rthread + 1 /\ rpc' = "ask" /\ UNCHANGED progress
                   ELSE /\ progress' = ProgressFraction(bytes_output',
                                           TotalEstimatedBytes(sentences, tregex_patterns))
                        /\ rpc' = "sleep"
                        /\ UNCHANGED rthread
    /\ UNCHANGED <<schedVars, dedupVars, trainVars, decodeVars, dirVars, tenseVars, total_bytes_output>>

ReporterStep == RStart \/ RWake \/ RLock \/ RTell

WorkerStepReport(w) ==
    \/ WGet(w)
    \/ WSkipEmpty(w)
    \/ WOpenCached(w)
    \/ WCreateAndSpawn(w)
    \/ WTool(w)
    \/ WParse(w)
    \/ WTotal(w)
    \/ WLockClose(w)
    \/ WRelease(w)
    \/ WClear(w)

ReportNext ==
    \/ MainStep
    \/ \E w \in Workers : WorkerStepReport(w)
    \/ ReporterStep

ReportSpec == ReportInit /\ [][ReportNext]_vars


\* ------------------------------------------- the cache directory's name
\* _create_output_file_if_not_exists, lines 619-627, on pattern texts of
\* any length: here a text is the sequence of its characters.

\* Line 620: the greatest length of a name that is used as it is.
MaxDirNameLength == 255

\* Line 626: what is kept of a longer name.
DirNamePrefixLength == 235

\* How far the lengths of the pattern texts go round MaxDirNameLength and
\* DirNamePrefixLength.
MaxOver == 2

\* An integer as hash() returns it: its sign and its decimal digits.
HashValue(negative, digits) == [negative |-> negative, digits |-> digits]

\* str(pattern_hash), line 627.
Str(h) == (IF h.negative THEN <<"-">> ELSE <<>>) \o h.digits

\* Line 625, "a 64-bit system": hash() returns a signed integer of 64
\* bits, -2^63 = -9223372036854775808 at least.
HashMin ==
    HashValue(TRUE, <<"9", "2", "2", "3", "3", "7", "2", "0", "3", "6", "8", "5", "4", "7", "7", "5", "8", "0", "8">>)

\* 2^63 - 1 at most.
HashMax ==
    HashValue(FALSE, <<"9", "2", "2", "3", "3", "7", "2", "0", "3", "6", "8", "5", "4", "7", "7", "5", "8", "0", "7">>)

\* Values of hash(pattern_dir_name): the least, the greatest, and some
\* between.
HashValues ==
    { HashMin, HashMax,
      HashValue(TRUE, <<"4", "2", "9", "4", "9", "6", "7", "2", "9", "6">>),
      HashValue(FALSE, <<"4", "2", "9", "4", "9", "6", "7", "2", "9", "6">>),
      HashValue(TRUE, <<"1">>),
      HashValue(FALSE, <<"0">>) }

\* The lengths of the pattern texts.
DirLengths ==
    (1..MaxOver)
    \cup ((DirNamePrefixLength - MaxOver)..(DirNamePrefixLength + MaxOver))
    \cup ((MaxDirNameLength - MaxOver)..(MaxDirNameLength + MaxOver))

\* A text of n characters: no '/', one at the front, one at the end, or
\* nothing else.
CharPattern(n, slashes) ==
    [i \in 1..n |->
        IF \/ slashes = "all"
           \/ slashes = "first" /\ i = 1
           \/ slashes = "last" /\ i = n
        THEN "/" ELSE "a"]

DirPatterns ==
    { CharPattern(n, slashes) :
        n \in DirLengths, slashes \in {"none", "first", "last", "all"} }

\* A name cut one character later.
CutPatternDirNameLate(name) == SubSeq(name, 1, DirNamePrefixLength + 1)

\* Line 626: pattern_dir_name[:235].
CutPatternDirName(name) == SubSeq(name, 1, DirNamePrefixLength)

\* Lines 619-627: the directory name of a pattern text whose name has the
\* given hash.
HashedPatternDirName(pattern, hash) ==
    LET name == PatternDirName(pattern)
    IN  IF Len(name) > MaxDirNameLength
        THEN CutPatternDirName(name) \o Str(hash)
        ELSE name

\* A thread about to make the directory name of some pattern text.
DirInit ==
    /\ dir_pattern \in DirPatterns
    /\ pattern_hash \in HashValues
    /\ pattern_dir_name = <<>>
    /\ SchedIdle
    /\ DedupIdle
    /\ TrainIdle
    /\ ReportIdle
    /\ DecodeIdle
    /\ TenseIdle

DMakeDirName ==
    /\ pattern_dir_name = <<>>
    /\ pattern_dir_name' = HashedPatternDirName(dir_pattern, pattern_hash)
    /\ UNCHANGED <<dir_pattern, pattern_hash, schedVars, dedupVars, trainVars,
                   reportVars, decodeVars, tenseVars>>

DirNameSpec == DirInit /\ [][DMakeDirName]_vars


\* ------------------------------------------------------ the tense cache
\* extract_tense of CausalClassifierModel
\* (candidate_filter_single_forest.py, lines 102-124) and of PhrasePairModel
\* (candidate_classifier.py, lines 64-84): the same code on each class's
\* own two class attributes.

\* The sentences whose heads are queried, and the tokens of each that are.
MaxTenseSentences == 2
MaxHeads == 2

\* The calls of one run.
MaxTenseCalls == 3

\* A head is a token object: its sentence and its place in it.  Two tokens
\* are the same dictionary key only when they are the same object.
Heads == [parent_sentence : 1..MaxTenseSentences, index : 1..MaxHeads]

\* Sentence.get_auxiliaries_string(head): some text fixed by the sentence
\* and the token; tokens at the same place of two sentences need not have
\* the same, two tokens of one sentence may.
AuxiliariesString(head) ==
    IF head.parent_sentence = 1 THEN "will"
    ELSE IF head.index = 1 THEN "have_been" ELSE "will"

\* dict[key] = value.
SetItem(dict, key, value) ==
    [k \in DOMAIN dict \cup {key} |-> IF k = key THEN value ELSE dict[k]]

\* Both classes as they are when their modules have been loaded.
TenseInit ==
    /\ TenseIdle
    /\ SchedIdle
    /\ DedupIdle
    /\ TrainIdle
    /\ ReportIdle
    /\ DecodeIdle
    /\ DirIdle

\* extract_tense without line 120 (80): the dictionary is kept when the
\* sentence changes.
ExtractTenseKeepingCache(c, head) ==
    /\ Len(tense_calls) < MaxTenseCalls
    /\ LET same == head.parent_sentence = cached_tenses_sentence[c]
           hit == same /\ head \in DOMAIN cached_tenses[c]
           tense == AuxiliariesString(head)
       IN  IF hit
           THEN /\ tense_calls' = Append(tense_calls,
                     [class |-> c, head |-> head,
                      tense |-> cached_tenses[c][head], cached |-> TRUE])
                /\ UNCHANGED <<cached_tenses, cached_tenses_sentence>>
           ELSE /\ cached_tenses_sentence' =
                     [cached_tenses_sentence EXCEPT ![c] = head.parent_sentence]
                /\ cached_tenses' =
                     [cached_tenses EXCEPT
                        ![c] = SetItem(cached_tenses[c], head, tense)]
                /\ tense_calls' = Append(tense_calls,
                     [class |-> c, head |-> head,
                      tense |-> tense, cached |-> FALSE])
    /\ UNCHANGED <<schedVars, dedupVars, trainVars, reportVars, decodeVars,
                   dirVars>>

\* One call of c.extract_tense(head): the cached value of the same
\* sentence's head if there is one (lines 111-114); otherwise, after the
\* reset for another sentence (117-120), the sentence's answer, stored
\* (122-124).
ExtractTense(c, head) ==
    /\ Len(tense_calls) < MaxTenseCalls
    /\ LET same == head.parent_sentence = cached_tenses_sentence[c]
           hit == same /\ head \in DOMAIN cached_tenses[c]
           kept == IF same THEN cached_tenses[c] ELSE NoCachedTenses
           tense == AuxiliariesString(head)
       IN  IF hit
           THEN /\ tense_calls' = Append(tense_calls,
                     [class |-> c, head |-> head,
                      tense |-> cached_tenses[c][head], cached |-> TRUE])
                /\ UNCHANGED <<cached_tenses, cached_tenses_sentence>>
           ELSE /\ cached_tenses_sentence' =
                     [cached_tenses_sentence EXCEPT ![c] = head.parent_sentence]
                /\ cached_tenses' =
                     [cached_tenses EXCEPT ![c] = SetItem(kept, head, tense)]
                /\ tense_calls' = Append(tense_calls,
                     [class |-> c, head |-> head,
                      tense |-> tense, cached |-> FALSE])
    /\ UNCHANGED <<schedVars, dedupVars, trainVars, reportVars, decodeVars,
                   dirVars>>

TenseNext == \E c \in TenseClasses : \E head \in Heads : ExtractTense(c, head)

TenseSpec == TenseInit /\ [][TenseNext]_vars


\* ------------------------------------------------------------------ claims
QueuedTexts == {tregex_patterns[k].text : k \in DOMAIN tregex_patterns}

UnitOf(k) == WorkUnit(sentences, tregex_patterns[k])

Returned == mainpc = "returned"

TheOutput(unit) ==
    TregexOutput(unit, PossibleTrees(unit), badPattern, badKind)

\* C1: every queued work unit is taken from the queue at most once, no two
\* threads hold the same unit, and when test() has returned the queue is
\* empty and every queued unit was taken once and marked complete once.
C1_UnitTakenExactlyOnce ==
    /\ \A t \in PatternTexts : taken[t] <= 1
    /\ \A w, v \in Workers :
          (w # v /\ wunit[w] # NoUnit) => wunit[w] # wunit[v]
    /\ Returned =>
          /\ queue = <<>>
          /\ \A t \in QueuedTexts : taken[t] = 1 /\ doneCount[t] = 1

C1_Witness ==
    /\ Returned
    /\ Len(tregex_patterns) = 2
    /\ \A t \in QueuedTexts : taken[t] = 1 /\ doneCount[t] = 1
    /\ \E t \in QueuedTexts : spawned[t] = 1

\* What the units logged as parsed for sentence i, in the order of the
\* stored patterns.
LoggedFor(t, i) == {e \in parsedLog : e.pattern = t /\ e.sentence = i}

ParsedForSentence(i) ==
    Flatten([k \in DOMAIN tregex_patterns |->
               IF i \in Range(UnitOf(k).possible_sentence_indices)
                  /\ LoggedFor(tregex_patterns[k].text, i) # {}
               THEN (CHOOSE e \in LoggedFor(tregex_patterns[k].text, i) : TRUE).pcs
               ELSE <<>>])

\* C2: when test() has returned, every unit has parsed each sentence of its
\* subset once, and output list i holds, as a multiset, exactly the
\* candidates so parsed for sentence i.
C2_OutputsAreWhatWasParsed ==
    Returned =>
        \A i \in DOMAIN sentences :
            /\ \A k \in DOMAIN tregex_patterns :
                  Cardinality(LoggedFor(tregex_patterns[k].text, i))
                    = (IF i \in Range(UnitOf(k).possible_sentence_indices)
                       THEN 1 ELSE 0)
            /\ SameBag(predicted_outputs[i], ParsedForSentence(i))

\* Two units have extended the list of the same sentence.
C2_Witness ==
    /\ Returned
    /\ \E i \in DOMAIN sentences :
          /\ Len(predicted_outputs[i]) = 2
          /\ predicted_outputs[i][1].matching_patterns
                # predicted_outputs[i][2].matching_patterns

\* C3: when test() has returned, every queued unit has been marked complete
\* and no thread is opening, running the matcher, parsing or appending.
C3_ReturnsAfterAllUnitsDone ==
    Returned =>
        /\ unfinished = 0
        /\ \A t \in QueuedTexts : doneCount[t] = 1
        /\ \A w \in Workers : wpc[w] \in {"get", "exited"}

C3_Witness ==
    /\ Returned
    /\ \E w \in Workers : wpc[w] = "get"
    /\ \E i \in DOMAIN sentences : predicted_outputs[i] # <<>>

\* The unit of the pattern whose matcher run goes wrong shares its cache
\* file with no other queued unit.
BadUnitAlone ==
    /\ badKind # "none"
    /\ \A k \in DOMAIN tregex_patterns :
          tregex_patterns[k].text # badPattern =>
              PatternDirName(tregex_patterns[k].text) # PatternDirName(badPattern)

\* C4: a unit whose matcher run fails or prints malformed output adds no
\* candidate, and is still marked complete like every other unit: once
\* every thread has ended, no queued unit is left incomplete (so that
\* test() returns).
C4_BadPatternNeverBlocksBatch ==
    /\ BadUnitAlone =>
          \A i \in DOMAIN predicted_outputs :
              \A j \in DOMAIN predicted_outputs[i] :
                  predicted_outputs[i][j].matching_patterns # <<badPattern>>
    /\ (\A w \in Workers : wpc[w] \in {"exited", "crashed"}) =>
          /\ unfinished = 0
          /\ \A t \in QueuedTexts : doneCount[t] = 1

\* C5: (the matcher always returns, one thread at least is started) every
\* thread eventually leaves on the empty queue and test() eventually
\* returns.
C5_WorkersExitAndTestReturns ==
    <>(Returned /\ \A w \in Workers : wpc[w] = "exited")

\* C6: a thread that reads results reads them from the cache file of its
\* unit; if that file was there when the thread looked, no matcher was
\* started for the unit, and otherwise exactly one, writing to that file.
C6_CacheHitSkipsTool ==
    \A w \in Workers :
        /\ wpc[w] \in {"tool", "parse"} =>
              /\ wfile[w] = UnitFile(wunit[w])
              /\ wfile[w] \in DOMAIN cache
        /\ wpc[w] = "parse" =>
              /\ foundInCache[wunit[w].pattern] = "present"
                    => spawned[wunit[w].pattern] = 0
              /\ foundInCache[wunit[w].pattern] = "absent"
                    => spawned[wunit[w].pattern] = 1

C6_Witness ==
    /\ Returned
    /\ \E t \in QueuedTexts : foundInCache[t] = "present" /\ spawned[t] = 0
    /\ \E t \in QueuedTexts : foundInCache[t] = "absent" /\ spawned[t] = 1

\* C7: the second of two calls of test() on the same patterns and
\* sentences starts no matcher and returns, for every sentence, the
\* candidates the first call returned.
C7_SecondCallHitsCacheSameResult ==
    (calls = 2 /\ Returned) =>
        /\ \A t \in PatternTexts : spawned[t] = 0
        /\ \A i \in DOMAIN sentences :
              SameBag(predicted_outputs[i], prev_outputs[i])

\* C8: (no matcher run goes wrong) whatever threads share a cache file,
\* each thread that parses reads the complete output for its pattern and
\* input, and the file left when test() has returned holds that output.
C8_RacingWorkersReadCompleteOutput ==
    badKind = "none" =>
        /\ \A w \in Workers :
              wpc[w] = "parse" => cache[wfile[w]] = TheOutput(wunit[w])
        /\ Returned =>
              \A k \in DOMAIN tregex_patterns :
                  UnitOf(k).possible_sentence_indices # <<>> =>
                      cache[UnitFile(UnitOf(k))] = TheOutput(UnitOf(k))

\* The key of a candidate: its connective tokens, its cause, its effect.
KeyOf(pc) == <<pc.connective, pc.cause, pc.effect>>

KeysOf(pcs) == {KeyOf(pcs[j]) : j \in DOMAIN pcs}

\* C9: the deduplicated list has exactly one candidate for each key of the
\* raw list: no key twice, none dropped, none invented.
C9_OneCandidatePerKey ==
    dedupDone =>
        /\ \A a, b \in DOMAIN deduplicated :
              a # b => KeyOf(deduplicated[a]) # KeyOf(deduplicated[b])
        /\ KeysOf(deduplicated) = KeysOf(raw_pcs)

\* Three raw candidates, two of them with the same key.
C9_Witness ==
    /\ dedupDone
    /\ Len(raw_pcs) = 3
    /\ Cardinality(KeysOf(raw_pcs)) = 2
    /\ Len(deduplicated) = 2

\* The patterns of the raw candidates that have the key of pc.
RawPatternsOf(pc) ==
    { raw_pcs[j].matching_patterns[1] :
        j \in { h \in DOMAIN raw_pcs : KeyOf(raw_pcs[h]) = KeyOf(pc) } }

\* C10: each deduplicated candidate's provenance holds every pattern of
\* the raw candidates with its key and no other; a key matched by two
\* raw candidates, of two different patterns, gives one candidate with a
\* provenance of size 2.
C10_ProvenanceAccumulates ==
    dedupDone =>
        \A a \in DOMAIN deduplicated :
            /\ Range(deduplicated[a].matching_patterns)
                  = RawPatternsOf(deduplicated[a])
            /\ ( /\ Cardinality({h \in DOMAIN raw_pcs :
                        KeyOf(raw_pcs[h]) = KeyOf(deduplicated[a])}) = 2
                 /\ Cardinality(RawPatternsOf(deduplicated[a])) = 2 )
               => Len(deduplicated[a].matching_patterns) = 2

\* Two different patterns matched the same triple.
C10_Witness ==
    /\ dedupDone
    /\ Len(raw_pcs) = 2
    /\ KeyOf(raw_pcs[1]) = KeyOf(raw_pcs[2])
    /\ raw_pcs[1].matching_patterns # raw_pcs[2].matching_patterns
    /\ Len(deduplicated) = 1
    /\ Len(deduplicated[1].matching_patterns) = 2

\* C11: the list __deduplicate returns is in non-decreasing order of the
\* token index of each candidate's first connective token.
C11_SortedByFirstConnective ==
    dedupDone =>
        \A a, b \in DOMAIN deduplicated :
            a < b => deduplicated[a].connective[1] <= deduplicated[b].connective[1]

\* The raw list had a later connective in front of an earlier one.
C11_Witness ==
    /\ dedupDone
    /\ Len(raw_pcs) = 3
    /\ raw_pcs[1].connective[1] > raw_pcs[3].connective[1]
    /\ Len(deduplicated) = 3
    /\ deduplicated[1].connective[1] < deduplicated[3].connective[1]

\* C12: __deduplicate applied to a list it returned gives the same list
\* again: the same candidates with the same provenance in the same order.
C12_DeduplicateIdempotent ==
    rededupDone => rededuplicated = deduplicated

\* C13: deduplication of any sentence's list begins only when the queue
\* has drained and every queued unit is complete, and from then on no
\* thread is parsing or appending and no output list grows.
C13_DedupAfterBarrier ==
    /\ [](possible_causations # <<>> =>
            /\ queue = <<>>
            /\ unfinished = 0
            /\ \A t \in QueuedTexts : doneCount[t] = 1
            /\ \A w \in Workers : wpc[w] \in {"get", "exited"})
    /\ [][\A i \in DOMAIN possible_causations :
            Len(predicted_outputs'[i]) = Len(predicted_outputs[i])]_vars

\* Every sentence is deduplicated, one of them from a list two units had
\* appended the same match to.
C13_Witness ==
    /\ mainpc = "done"
    /\ \E i \in DOMAIN possible_causations :
          /\ Len(possible_causations[i]) = 1
          /\ Len(possible_causations[i][1].matching_patterns) = 2

\* Some sentence holds every connective lemma of stored pattern k.
SomeSentenceHasLemmas(k) ==
    \E i \in DOMAIN sentences :
        \A j \in DOMAIN tregex_patterns[k].lemmas :
            \E t \in DOMAIN sentences[i] :
                sentences[i][t] = tregex_patterns[k].lemmas[j]

\* The queue as test() has filled it, before any thread is started.
JustQueued == mainpc = "start" /\ \A w \in Workers : wpc[w] = "unstarted"

InQueue(t) == Cardinality({j \in DOMAIN queue : queue[j].pattern = t})

\* C14 as stated: the units test() queues are as many as the stored
\* patterns with a non-empty sentence subset, one for each of them, and a
\* pattern with an empty subset has no unit in the queue.
C14_QueuedOnlyNonEmpty ==
    JustQueued =>
        /\ Len(queue) = Cardinality({k \in DOMAIN tregex_patterns :
                                        SomeSentenceHasLemmas(k)})
        /\ \A k \in DOMAIN tregex_patterns :
              InQueue(tregex_patterns[k].text)
                = (IF SomeSentenceHasLemmas(k) THEN 1 ELSE 0)

\* C14 amended: test() queues exactly one unit for each stored pattern,
\* in the order of the patterns, whether or not its sentence subset is
\* empty; from then on each pattern's unit is in the queue or was taken,
\* never both and never twice.
C14_OneUnitPerStoredPattern ==
    /\ JustQueued =>
          /\ Len(queue) = Len(tregex_patterns)
          /\ unfinished = Len(tregex_patterns)
          /\ \A k \in DOMAIN tregex_patterns :
                /\ queue[k].pattern = tregex_patterns[k].text
                /\ (queue[k].possible_sentence_indices = <<>>)
                      <=> ~SomeSentenceHasLemmas(k)
    /\ mainpc \in {"start", "join", "returned"} =>
          \A k \in DOMAIN tregex_patterns :
              InQueue(tregex_patterns[k].text) + taken[tregex_patterns[k].text] = 1

\* Two patterns are queued, one with sentences to scan and one without.
C14_Witness ==
    /\ JustQueued
    /\ Len(queue) = 2
    /\ queue[1].possible_sentence_indices # <<>>
    /\ queue[2].possible_sentence_indices = <<>>

\* C15: for a stored pattern whose sentence subset is empty no matcher is
\* started, no cache file is looked up, opened or created, no thread is
\* ever creating, running the matcher or parsing for it, and no output
\* list holds a candidate of it.
C15_EmptySubsetTouchesNothing ==
    \A k \in DOMAIN tregex_patterns :
        ~SomeSentenceHasLemmas(k) =>
            LET t == tregex_patterns[k].text
            IN  /\ spawned[t] = 0
                /\ foundInCache[t] = "unknown"
                /\ \A e \in parsedLog : e.pattern # t
                /\ \A w \in Workers :
                      wunit[w].pattern = t => wpc[w] \in {"got", "get"}
                /\ \A i \in DOMAIN predicted_outputs :
                      \A j \in DOMAIN predicted_outputs[i] :
                          t \notin Range(predicted_outputs[i][j].matching_patterns)

\* A unit without sentences was taken and marked complete, next to one
\* that ran the matcher.
C15_Witness ==
    /\ Returned
    /\ \E k \in DOMAIN tregex_patterns :
          /\ ~SomeSentenceHasLemmas(k)
          /\ taken[tregex_patterns[k].text] = 1
          /\ doneCount[tregex_patterns[k].text] = 1
    /\ \E t \in QueuedTexts : spawned[t] = 1

\* List a is the front of list b.
IsPrefix(a, b) == Len(a) <= Len(b) /\ SubSeq(b, 1, Len(a)) = a

\* C16: from the allocation of the output structure until test() returns
\* it holds one list per sentence, and each list changes only by growing
\* at its end; _test_documents then hands one list to each sentence, its
\* iterator neither runs out early nor has a list left, so the assertion
\* "Should have as many causation lists as sentences!" does not fail.
C16_OneListPerSentence ==
    /\ [](mainpc # "init" => Len(predicted_outputs) = Len(sentences))
    /\ [][(mainpc \in {"start", "join"} /\ mainpc' \in {"start", "join", "returned"})
            => \A i \in DOMAIN predicted_outputs :
                   IsPrefix(predicted_outputs[i], predicted_outputs'[i])]_vars
    /\ [](mainpc \notin {"stop_iteration", "assert_failed"})
    /\ [](mainpc = "done" => Len(possible_causations) = Len(sentences))

\* _test_documents has gone through every sentence, and one list had
\* been extended twice.
C16_Witness ==
    /\ mainpc = "done"
    /\ Len(possible_causations) = Len(sentences)
    /\ \E i \in DOMAIN predicted_outputs : Len(predicted_outputs[i]) = 2

\* The sentence whose list thread w is extending.
ExtendIndex(w) == wunit[w].possible_sentence_indices[widx[w]]

SentenceQualifies(i, k) ==
    \A j \in DOMAIN tregex_patterns[k].lemmas :
        \E t \in DOMAIN sentences[i] :
            sentences[i][t] = tregex_patterns[k].lemmas[j]

\* C18: the sentence subset queued for a pattern lists, in ascending
\* order and once each, exactly the sentences that hold every connective
\* lemma of the pattern.
C18_FilterExact ==
    JustQueued =>
        \A k \in DOMAIN queue :
            LET idx == queue[k].possible_sentence_indices
            IN  /\ \A a, b \in DOMAIN idx : a < b => idx[a] < idx[b]
                /\ Range(idx) = {i \in DOMAIN sentences : SentenceQualifies(i, k)}

\* A pattern of two different lemmas; the first sentence holds one of
\* them and is left out, the second holds both.
C18_Witness ==
    /\ mainpc = "start"
    /\ Len(sentences) = 2
    /\ tregex_patterns[1].lemmas = <<"b", "a">>
    /\ sentences[1] = <<"ROOT", "b", "b">>
    /\ queue[1].possible_sentence_indices = <<2>>

\* The lines thread 1 was given to parse, their batch size and the number
\* of full batches among them.
GivenLines == cache[UnitFile(WorkUnit(sentences, tregex_patterns[1]))][1].lines

BatchSize == 2 + Len(tregex_patterns[1].labels)

FullBatches == Len(GivenLines) \div BatchSize

BatchLine(g, j) == GivenLines[(g - 1) * BatchSize + j]

\* Every line of full batch g names a token of the sentence, and its
\* connective lines name tokens with a lemma of the pattern.
BatchWellFormed(g) ==
    \A j \in 1..BatchSize :
        /\ BatchLine(g, j).numeric
        /\ BatchLine(g, j).suffix < Len(sentences[1])
        /\ j > 2 => TokenLemma(sentences[1], BatchLine(g, j).suffix)
                       \in Range(tregex_patterns[1].lemmas)

ParseCrashed == wpc[1] = "crashed"

ParseDone == wpc[1] = "get" \/ (wpc[1] = "parse" /\ widx[1] = 2)

\* C19: when the lines of a sentence do not divide into batches of 2 + k
\* (and the full batches are well formed), the lines left over give no
\* candidate whatever they are, the parsing is not aborted, and each full
\* batch gives one candidate, made of its own lines.
C19_IncompleteBatchDiscarded ==
    ( /\ Len(GivenLines) % BatchSize # 0
      /\ \A g \in 1..FullBatches : BatchWellFormed(g) )
    => /\ ~ParseCrashed
       /\ ParseDone =>
             /\ Len(predicted_outputs[1]) = FullBatches
             /\ \A g \in 1..FullBatches :
                   /\ predicted_outputs[1][g].cause = BatchLine(g, 1).suffix
                   /\ predicted_outputs[1][g].effect = BatchLine(g, 2).suffix
                   /\ SameBag(predicted_outputs[1][g].connective,
                              [j \in 1..(BatchSize - 2) |-> BatchLine(g, j + 2).suffix])

\* A full batch followed by a line that names no token: one candidate.
C19_Witness ==
    /\ ParseDone
    /\ FullBatches = 1
    /\ Len(GivenLines) = BatchSize + 1
    /\ ~GivenLines[Len(GivenLines)].numeric
    /\ Len(predicted_outputs[1]) = 1

\* The lemmas of a candidate's connective tokens, in the candidate's order.
ConnectiveLemmas(pc) ==
    [j \in DOMAIN pc.connective |-> TokenLemma(sentences[pc.sentence], pc.connective[j])]

\* The matcher printed, in some order, different tokens that carry the
\* pattern's connective lemmas, each lemma as often as the pattern has it.
MatchedTheLemmas(pc) ==
    /\ \A a, b \in DOMAIN pc.connective : a # b => pc.connective[a] # pc.connective[b]
    /\ SameBag(ConnectiveLemmas(pc), tregex_patterns[1].lemmas)

\* C20: the lemmas of every parsed candidate's connective tokens, read in
\* the candidate's order, are the pattern's connective lemma list, in
\* whatever order the matcher printed the tokens and also when the list
\* has a lemma twice.
C20_ConnectiveInLemmaOrder ==
    ParseDone =>
        \A g \in DOMAIN predicted_outputs[1] :
            MatchedTheLemmas(predicted_outputs[1][g])
              => ConnectiveLemmas(predicted_outputs[1][g]) = tregex_patterns[1].lemmas

WithPattern == { k \in DOMAIN generated :
                   generated[k].called /\ ~generated[k].result.is_none }

\* The patterns returned so far, each at its first occurrence.
FirstOccurrences ==
    LET first == SelectSeq([k \in DOMAIN generated |-> k],
                     LAMBDA k : /\ k \in WithPattern
                                /\ \A j \in WithPattern : j < k =>
                                      generated[j].result.pattern
                                          # generated[k].result.pattern)
    IN  [i \in DOMAIN first |-> generated[first[i]].result.pattern]

ExtractDone == xpos > Len(train_instances) /\ train_instances # <<>>

\* C22: the stored pattern list holds no pattern text twice, holds every
\* pattern text generated from an instance with both cause and effect, and
\* holds the texts in the order in which they first occurred.
C22_StoredPatternsUniqueInOrder ==
    train_instances # <<>> =>
        /\ \A i, j \in DOMAIN tregex_patterns :
               i # j => tregex_patterns[i].text # tregex_patterns[j].text
        /\ \A k \in WithPattern :
               \E i \in DOMAIN tregex_patterns :
                   tregex_patterns[i].text = generated[k].result.pattern
        /\ [i \in DOMAIN tregex_patterns |-> tregex_patterns[i].text]
               = FirstOccurrences

\* Training is over; two instances gave the same pattern text.
C22_Witness ==
    /\ ExtractDone
    /\ \E j, k \in WithPattern :
           j < k /\ generated[j].result.pattern = generated[k].result.pattern
    /\ Len(tregex_patterns) = 1

\* C23: pattern generation returns (None, None) exactly for an instance
\* with more than tregex_max_steiners Steiner nodes; such an instance adds
\* nothing to the stored patterns, and test() queues a unit for the stored
\* patterns only.
C23_NullExactlyAboveMaxSteiners ==
    train_instances # <<>> =>
        /\ \A k \in DOMAIN generated :
               generated[k].called =>
                   (generated[k].result.is_none
                       <=> Len(train_instances[k].steiner_nodes) > TregexMaxSteiners)
        /\ Len(tregex_patterns) <= Cardinality(WithPattern)
        /\ \A i \in DOMAIN tregex_patterns :
               \E k \in WithPattern :
                   tregex_patterns[i].text = generated[k].result.pattern
        /\ \A q \in DOMAIN queue :
               \E k \in WithPattern : queue[q].pattern = generated[k].result.pattern
        /\ mainpc = "start" => Len(queue) = Cardinality({generated[k].result.pattern :
                                                          k \in WithPattern})

\* test() has queued its units after a training on an instance with more
\* Steiner nodes than the maximum and one with exactly the maximum.
C23_Witness ==
    /\ mainpc = "start"
    /\ Len(queue) = 1
    /\ \E k \in DOMAIN generated :
           /\ generated[k].called /\ generated[k].result.is_none
           /\ Len(train_instances[k].steiner_nodes) = TregexMaxSteiners + 1
    /\ \E k \in WithPattern :
           Len(train_instances[k].steiner_nodes) = TregexMaxSteiners

\* Instance b is instance a with its longest path found from the other end.
SameButReversed(a, b) == b = [a EXCEPT !.longest_path = Reverse(@)]

BothHeadsOnPath(inst) ==
    inst.cause \in Range(inst.longest_path) /\ inst.effect \in Range(inst.longest_path)

\* The place of a node's name in a pattern text (0: not in it).
NamePlace(pattern, name) ==
    IF \E i \in DOMAIN pattern : pattern[i] = name
    THEN CHOOSE i \in DOMAIN pattern :
             pattern[i] = name /\ \A j \in 1..(i - 1) : pattern[j] # name
    ELSE 0

\* C29: two instances with the same Steiner tree and the same roles whose
\* longest path was found in opposite directions get the same pattern text;
\* when both argument heads are on the longest path, the cause head's node
\* comes before the effect head's in the text.
C29_ReversedPathSamePattern ==
    /\ \A j, k \in WithPattern :
           SameButReversed(train_instances[j], train_instances[k]) =>
               generated[j].result.pattern = generated[k].result.pattern
    /\ \A k \in WithPattern :
           BothHeadsOnPath(train_instances[k]) =>
               NamePlace(generated[k].result.pattern,
                         NodeName(train_instances[k], train_instances[k].cause))
               < NamePlace(generated[k].result.pattern,
                           NodeName(train_instances[k], train_instances[k].effect))

\* C24: two distinct pattern texts never get the same cache directory, so
\* a thread never finds a cache file written for another pattern: in the
\* first call of test(), which starts on an empty cache and takes every
\* unit once, no thread finds its unit's file in the cache.
C24_NoForeignCacheFile ==
    calls = 1 =>
        \A w \in Workers :
            wunit[w] # NoUnit => foundInCache[wunit[w].pattern] # "present"

\* C30: every unit a thread has taken and let go of has had task_done
\* called for it once, a unit still held by a thread not yet; task_done
\* calls never outnumber the units taken, and when test() returns there is
\* one call for every queued unit.  Both the step that skips a unit with
\* no sentences and the step that ends a processed unit make one call and
\* take the thread back to the queue.
C30_TaskDoneOncePerUnitTaken ==
    /\ [](/\ \A t \in PatternTexts : doneCount[t] <= taken[t]
          /\ \A w \in Workers :
                 wunit[w] # NoUnit => doneCount[wunit[w].pattern] = 0
          /\ \A t \in PatternTexts :
                 (\A w \in Workers : wunit[w].pattern # t) => doneCount[t] = taken[t]
          /\ Returned => \A t \in QueuedTexts : taken[t] = 1 /\ doneCount[t] = 1)
    /\ [][\A w \in Workers :
            (/\ wpc[w] = "got" /\ NoSentencesToScan(wunit[w])
             /\ wpc'[w] # wpc[w]) =>
                /\ wpc'[w] = "get"
                /\ doneCount'[wunit[w].pattern] = doneCount[wunit[w].pattern] + 1]_vars
    /\ [][\A w \in Workers :
            (/\ wpc[w] = "parse" /\ widx[w] > Len(wunit[w].possible_sentence_indices)
             /\ wpc'[w] # wpc[w]) =>
                /\ wpc'[w] = "get"
                /\ doneCount'[wunit[w].pattern] = doneCount[wunit[w].pattern] + 1]_vars

\* test() has returned after a unit with no sentences to scan and a unit
\* that was processed.
C30_Witness ==
    /\ Returned
    /\ \E j, k \in DOMAIN tregex_patterns :
           /\ NoSentencesToScan(UnitOf(j))
           /\ ~NoSentencesToScan(UnitOf(k))
           /\ doneCount[tregex_patterns[j].text] = 1
           /\ doneCount[tregex_patterns[k].text] = 1

\* The part has label True and shares a connective token with another
\* part that has.
SharesToken(i) ==
    /\ labels[i]
    /\ \E j \in DOMAIN classifier_parts :
           /\ j # i /\ labels[j]
           /\ Range(classifier_parts[i].connective)
                  \cap Range(classifier_parts[j].connective) # {}

PartKept(i) ==
    \E k \in DOMAIN causation_instances :
        /\ causation_instances[k].connective = classifier_parts[i].connective
        /\ causation_instances[k].cause = classifier_parts[i].cause
        /\ causation_instances[k].effect = classifier_parts[i].effect

\* C27: after decode, a positive part that shares a connective token with
\* another positive part has been dropped only if every pattern that found
\* it has a Steiner node; one found by at least one pattern without
\* Steiner nodes is kept.
C27_DroppedOnlyIfSolelySteiner ==
    decoded =>
        \A i \in DOMAIN classifier_parts :
            SharesToken(i) =>
                /\ ~PartKept(i) =>
                       \A k \in DOMAIN classifier_parts[i].connective_patterns :
                           HasSteinerZero(classifier_parts[i].connective_patterns[k])
                /\ (\E k \in DOMAIN classifier_parts[i].connective_patterns :
                        ~HasSteinerZero(classifier_parts[i].connective_patterns[k]))
                       => PartKept(i)

TotalEstimate == TotalEstimatedBytes(sentences, tregex_patterns)

\* C25: every fraction the reporter computes is the observed byte count
\* over the estimated total where that is at most 0.99, is 0.99 where it is
\* more, and is 0 when the estimated total is zero; the fraction is never
\* above 0.99.
C25_FractionIsCappedRatio ==
    /\ [](progress[1] * 100 <= 99 * progress[2])
    /\ [][(rpc = "tell" /\ rpc' = "sleep") =>
            /\ TotalEstimate = 0 => progress'[1] = 0
            /\ (TotalEstimate # 0 /\ bytes_output' * 100 * 100 <= 99 * TotalEstimate) =>
                   progress'[1] * TotalEstimate = bytes_output' * 100 * progress'[2]
            /\ (TotalEstimate # 0 /\ bytes_output' * 100 * 100 > 99 * TotalEstimate) =>
                   progress'[1] * 100 = 99 * progress'[2]]_vars

\* The reporter has computed a fraction from a byte count above the
\* estimated total.
C25_Witness ==
    /\ rpc = "sleep"
    /\ TotalEstimate # 0
    /\ bytes_output * 100 > TotalEstimate
    /\ progress = <<99, 100>>

\* C26: no thread's output file is closed while the reporter holds that
\* thread's file lock; get_progress lets no exception through to the
\* reporter; and asked about a thread whose file is None or closed it
\* returns that thread's total_bytes_output.
C26_ReadAndCloseExcludeEachOther ==
    /\ [][\A w \in Workers :
            (HandleState(w) = "open" /\ HandleState(w)' = "closed") =>
                file_lock[w] # "reporter"]_vars
    /\ [](rpc # "error")
    /\ [][(rpc = "tell" /\ rpc' # "tell" /\ HandleState(rthread) # "open") =>
            bytes_output' = bytes_output + total_bytes_output[rthread]]_vars

\* The thread w parses the k-th sentence of its unit in this step.
ParsesSentence(w, k) ==
    /\ wpc[w] = "parse"
    /\ widx[w] = k
    /\ widx'[w] = k + 1

\* C31: when a thread parses the k-th sentence of its unit, candidates are
\* only added from the k-th tree's part of the output file and only to the
\* list of the k-th sentence index of the unit, and (for a matcher that
\* prints a part for that tree) the file is then positioned after k parts,
\* at the line with the next tree's number.
C31_BlockKGoesToSentenceK ==
    [][\A w \in Workers : \A k \in 1..NumSentences :
          ParsesSentence(w, k) =>
              /\ \A i \in DOMAIN predicted_outputs :
                    predicted_outputs'[i] # predicted_outputs[i] =>
                        /\ i = wunit[w].possible_sentence_indices[k]
                        /\ wpos[w] + 1 = k
              /\ Len(TheOutput(wunit[w])) >= k => wpos'[w] = k]_vars

\* C32: the provenance of every candidate __deduplicate returns holds no
\* pattern twice, whatever raw candidates had the candidate's key.
C32_ProvenanceHoldsNoPatternTwice ==
    dedupDone =>
        \A a \in DOMAIN deduplicated :
            \A x, y \in DOMAIN deduplicated[a].matching_patterns :
                x # y => deduplicated[a].matching_patterns[x]
                            # deduplicated[a].matching_patterns[y]

\* What the unit of the k-th stored pattern parses for sentence i out of
\* the complete output of its own matcher run.
OwnCandidates(k, i) ==
    LET unit == UnitOf(k)
        out == TheOutput(unit)
    IN  IF i \notin Range(unit.possible_sentence_indices) THEN <<>>
        ELSE ProcessTregexForSentence(
                 ReadBlock(out, ListIndex(unit.possible_sentence_indices, i) + 1).lines,
                 unit, i, sentences[i]).possible_causations

\* The raw candidates of sentence i when the units run one after the
\* other, in the order of the stored patterns.
RawInPatternOrder(i) ==
    Flatten([k \in DOMAIN tregex_patterns |-> OwnCandidates(k, i)])

\* The same candidates in the same order, each with the same patterns in
\* its provenance.
SameCandidateList(a, b) ==
    /\ Len(a) = Len(b)
    /\ \A j \in DOMAIN a :
          /\ KeyOf(a[j]) = KeyOf(b[j])
          /\ Range(a[j].matching_patterns) = Range(b[j].matching_patterns)

\* C33: (no matcher run goes wrong) whatever the interleaving of the
\* threads, the list _test_documents stores for a sentence is the one a
\* run of the units one after the other gives for the same patterns,
\* sentences and matcher outputs: the same candidates, provenances and
\* order.
C33_ResultSameUnderEveryInterleaving ==
    (mainpc = "done" /\ badKind = "none") =>
        \A i \in DOMAIN sentences :
            \A order \in DictValueOrders(DedupDict(RawInPatternOrder(i))) :
                SameCandidateList(possible_causations[i],
                                  Deduplicate(RawInPatternOrder(i), order))

\* C34: the cache file left by a matcher run that failed is not taken for
\* a result: in a second call of test() the thread that has the unit of
\* the pattern whose run failed finds no usable cache file and starts the
\* matcher again before it parses.
C34_FailedRunLeavesNoCacheEntry ==
    \A w \in Workers :
        ( /\ calls = 2
          /\ badKind = "fail"
          /\ wpc[w] = "parse"
          /\ wunit[w].pattern = badPattern )
        => /\ foundInCache[badPattern] = "absent"
           /\ spawned[badPattern] = 1

\* The bytes of matcher output thread w has read so far: the files it has
\* finished, and the part read of the file it is parsing.  From line 663
\* on the file in hand is part of total_bytes_output.
BytesConsumed(w) ==
    IF wfile[w] = NoFile \/ wpc[w] \in {"lock", "release", "clear"}
    THEN total_bytes_output[w]
    ELSE total_bytes_output[w] + Tell(w)

\* C35: whenever get_progress returns a value for a thread, the value is
\* no more than the bytes of output the thread has read so far, and no
\* less than the value returned for the thread the time before.
C35_ProgressBoundedAndMonotone ==
    [][(rpc = "tell" /\ rpc' # "error") =>
          /\ last_progress'[rthread] <= BytesConsumed(rthread)
          /\ last_progress'[rthread] >= last_progress[rthread]]_vars

\* C36: once a call of test() has queued its units, the tree strings it
\* hands to its threads are those of the sentences it was called with, and
\* the tree strings kept by training are gone.
C36_TreesAreThoseOfTheSentencesGiven ==
    calls >= 1 =>
        /\ ptb_strings = PreprocessSentences(sentences)
        /\ self_ptb_strings = NoPtbStrings

\* C37: for every instance a pattern was generated for, the token the
\* search for the longest path was started at is a node of the instance's
\* Steiner tree.
C37_PathSeedIsInSteinerTree ==
    \A k \in DOMAIN generated :
        generated[k].called =>
            generated[k].path_seed_index \in SteinerTreeNodes(train_instances[k])

\* C38: after decode, every instance returned is a positively labelled
\* part, and every connective token of a positively labelled part is a
\* connective token of some instance returned.
C38_NoConnectiveLosesAllCandidates ==
    decoded =>
        /\ \A k \in DOMAIN causation_instances :
               \E i \in DOMAIN classifier_parts :
                   /\ labels[i]
                   /\ causation_instances[k].connective = classifier_parts[i].connective
                   /\ causation_instances[k].cause = classifier_parts[i].cause
                   /\ causation_instances[k].effect = classifier_parts[i].effect
        /\ \A i \in DOMAIN classifier_parts :
               labels[i] =>
                   \A token \in Range(classifier_parts[i].connective) :
                       \E k \in DOMAIN causation_instances :
                           token \in Range(causation_instances[k].connective)

\* C39: the directory name made from a pattern text is never longer than
\* 255 characters; a text of at most 255 characters gives its own
\* characters with every '/' replaced by '\', and a longer one the first
\* 235 of these followed by the decimal hash, which is at most 20
\* characters long.
C39_DirNameAtMost255 ==
    pattern_dir_name # <<>> =>
        LET replaced == [i \in DOMAIN dir_pattern |->
                            IF dir_pattern[i] = "/" THEN "\\" ELSE dir_pattern[i]]
        IN  /\ Len(pattern_dir_name) <= 255
            /\ Len(dir_pattern) <= 255 => pattern_dir_name = replaced
            /\ Len(dir_pattern) > 255 =>
                  /\ SubSeq(pattern_dir_name, 1, 235) = SubSeq(replaced, 1, 235)
                  /\ SubSeq(pattern_dir_name, 236, Len(pattern_dir_name))
                        = Str(pattern_hash)
                  /\ Len(Str(pattern_hash)) <= 20

\* A text of more than 255 characters whose hash is the least integer: the
\* name is 255 characters long.
C39_Witness ==
    /\ Len(dir_pattern) > 255
    /\ pattern_hash = HashMin
    /\ Len(Str(pattern_hash)) = 20
    /\ Len(pattern_dir_name) = 255


\* The calls a class has had, in order.
CallsOf(c) == SelectSeq(tense_calls, LAMBDA call : call.class = c)

\* The heads a class was asked about since it last went over to another
\* sentence.
HeadsSinceLastSwitch(c) ==
    LET asked == CallsOf(c)
        n == Len(asked)
    IN  { asked[k].head :
            k \in { k \in 1..n :
                      \A j \in k..n : asked[j].head.parent_sentence
                                        = asked[n].head.parent_sentence } }

\* C40: every call of extract_tense returns what get_auxiliaries_string
\* gives for its head; after every call a class's cache holds entries only
\* for heads of the one sentence it has cached, namely those asked about
\* since a head of another sentence was last queried.
C40_TenseIsTheSentencesAnswer ==
    /\ \A k \in DOMAIN tense_calls :
          tense_calls[k].tense = AuxiliariesString(tense_calls[k].head)
    /\ \A c \in TenseClasses :
          /\ \A h \in DOMAIN cached_tenses[c] :
                /\ h.parent_sentence = cached_tenses_sentence[c]
                /\ cached_tenses[c][h] = AuxiliariesString(h)
          /\ DOMAIN cached_tenses[c] = HeadsSinceLastSwitch(c)

\* A class went from one sentence to another and then answered from its
\* cache.
C40_Witness ==
    \E c \in TenseClasses :
        LET asked == CallsOf(c)
        IN  /\ Len(asked) = 3
            /\ asked[1].head.parent_sentence # asked[2].head.parent_sentence
            /\ asked[3].head = asked[2].head
            /\ asked[3].cached
            /\ ~asked[2].cached

====
